---- MODULE Spec2Model ----
(***************************************************************************)
(* Lucky-Bet server: the session-authenticated request pipeline            *)
(* (Controller, AuthService, Session) and the wager settlement engine      *)
(* (GameService.playCoinFlip / playRoulette) over the users table.         *)
(*                                                                         *)
(* Money is counted in cents (users.balance is DECIMAL(10,2)); bet amounts *)
(* are whole coins, so amount * 1.95 is an exact number of cents.          *)
(* A handler that awaits two SQL statements is two actions: the statement  *)
(* of another request may be applied by the database in between.           *)
(* A session is its data and the expiry of its cookie; the expiry is kept  *)
(* relative to the clock: "future" until the clock passes it, then "past". *)
(***************************************************************************)
EXTENDS Integers, Sequences, FiniteSets, TLC

\* ------------------------------------------------------------------ bounds
MaxUsers == 2
MaxRequests == 3
MaxBetCoins == 3
DefaultBalanceCoins == 2
CentsPerCoin == 100

Procs == {1, 2}
Sessions == {"s1", "s2"}
NoValue == "<undefined>"
Usernames == {"ann", ""}
Emails == {"a@x", "b@x", ""}
Passwords == {"pw1", "secret", ""}
NewPasswords == {"pw1", "secret", NoValue}
Names == {"bob", ""}

BetCoins == (0 - 1)..MaxBetCoins
NumericAmounts == {[num |-> TRUE, v |-> c * CentsPerCoin] : c \in BetCoins}
NotANumber == [num |-> FALSE, v |-> 0]
AmountInputs == NumericAmounts \cup {NotANumber}
Guesses == {"heads", "Tails", "edge", "", NoValue}
Outcomes == {"heads", "tails"}
BetTypes == {"17", "red", "1-12", "purple"}
BalanceInputs == {0 - CentsPerCoin, 0, 5 * CentsPerCoin}
DefaultBalance == DefaultBalanceCoins * CentsPerCoin

\* ------------------------------------------------------------------- state
VARIABLES
    users,      \* the users table: row id |-> [username, email, password, balance]
    session,    \* every Session: its data [user, userEmail] and its cookie's expiry
    req,        \* per concurrent handler: where it is suspended, and its locals
    resp,       \* the last response sent (Response.send), with the request it answers
    expected,   \* history: per user, the balance if every committed write were applied as a delta
    nreq,       \* number of requests dispatched so far
    loggedOut,  \* history: per session, logged out and not authenticated again since
    ui,         \* BlackjackPage: the React state of the last render, and user.balance
    heap,       \* BlackjackPage: the card arrays of the player hands, by identity
    tasks,      \* BlackjackPage: pending continuations (awaited fetches, timers) and their closures
    round,      \* history: what the current round staked and what it was dealt
    shoe,       \* the number of cards the deck of the card API still holds
    eval        \* an evaluation of getHandValue: its argument and its result

serverVars == <<users, session, req, resp, expected, nreq, loggedOut>>
clientVars == <<ui, heap, tasks, round, shoe, eval>>
vars == <<users, session, req, resp, expected, nreq, loggedOut, ui, heap, tasks, round, shoe, eval>>

NoUser == 0
Idle == [pc |-> "idle"]
NoPayload == [none |-> TRUE]
NoResp == [n |-> 0, route |-> "none", sess |-> "none", status |-> 0, message |-> "",
           payload |-> NoPayload, cookies |-> <<>>, in |-> NoPayload]

StatusOK == 200
StatusCreated == 201
StatusBadRequest == 400
StatusUnauthorized == 401
StatusNotFound == 404
StatusInternalServerError == 500

UserIds == DOMAIN users

\* new Session(id): empty data, and a cookie with the default lifetime
FreshSession == [user |-> NoUser, userEmail |-> NoValue, expires |-> "future"]

\* Session.destroy: this.data = {}; this.cookie.setExpires()
DestroyedSession == [user |-> NoUser, userEmail |-> NoValue, expires |-> "past"]

\* Session.isExpired: this.cookie.getExpires() <= Date.now()
IsExpired(s) == session[s].expires = "past"

\* the session a request bearing the cookie of s runs on: an expired session
\* counts as absent, and the request gets a new one
Resolve(s) == IF IsExpired(s) THEN FreshSession ELSE session[s]

\* Session.get("user")?.id
SessionUserId(s) == Resolve(s).user

\* Response.send after zero or more Response.setCookie calls; n numbers the responses
Send(route, s, status, message, payload, cookies, in) ==
    resp' = [n |-> resp.n + 1, route |-> route, sess |-> s, status |-> status, message |-> message,
             payload |-> payload, cookies |-> cookies, in |-> in]

\* Session.cookie: new Cookie("session_id", id)
SessionCookie(s) == [name |-> "session_id", value |-> s]

\* A request is dispatched to a handler: the lowest free handler slot takes it.
FreeProcs ==
    IF nreq < MaxRequests
    THEN {p \in Procs : req[p].pc = "idle" /\ \A q \in Procs : q < p => req[q].pc # "idle"}
    ELSE {}

Dispatch(p) ==
    /\ p \in FreeProcs
    /\ nreq' = nreq + 1

Suspend(p, locals) == req' = [req EXCEPT ![p] = locals]
Resume(p) == req' = [req EXCEPT ![p] = Idle]

\* ------------------------------------------------------------ UserModel
\* findByEmail returning the first row of the table, whatever its email
FindByEmailFirstRow(email) == IF users # <<>> THEN 1 ELSE NoUser

\* UserModel.findByEmail: users[0] || null
FindByEmail(email) ==
    IF \E i \in UserIds : users[i].email = email
    THEN CHOOSE i \in UserIds :
            users[i].email = email /\ \A j \in UserIds : users[j].email = email => i <= j
    ELSE NoUser

\* the users table without its UNIQUE constraint
UniqueViolationDropped(email, except) == FALSE

\* email TEXT NOT NULL UNIQUE: a row other than `except` already holds this email
UniqueViolation(email, except) ==
    \E i \in UserIds : i # except /\ users[i].email = email

\* UserModel.createUser: INSERT ... VALUES (username, email, password, DEFAULT)
CreateUser(username, email, password) ==
    Append(users, [username |-> username, email |-> email, password |-> password,
                   balance |-> DefaultBalance])

\* UserModel.getById: SELECT id, username, email, balance, password ... users[0] || null
GetById(id) ==
    [id |-> id, username |-> users[id].username, email |-> users[id].email,
     balance |-> users[id].balance, password |-> users[id].password]

\* an update of the password that writes no row
UpdatePasswordRowDropped(id, newPassword) == users

\* UserModel.updatePassword: UPDATE users SET password = newPassword WHERE id = id
UpdatePasswordRow(id, newPassword) ==
    [i \in UserIds |-> IF i = id THEN [users[i] EXCEPT !.password = newPassword] ELSE users[i]]

\* UserModel.updateBalance: UPDATE users SET balance = newBalance WHERE id = id
UpdateBalance(id, newBalance) ==
    [i \in UserIds |-> IF i = id THEN [users[i] EXCEPT !.balance = newBalance] ELSE users[i]]

\* history of UpdateBalance: a settlement's delta, or the value an absolute write sets
Credit(id, delta) ==
    [i \in DOMAIN expected |-> IF i = id THEN expected[i] + delta ELSE expected[i]]
Reset(id, value) ==
    [i \in DOMAIN expected |-> IF i = id THEN value ELSE expected[i]]

\* ------------------------------------------------------------ AuthService
\* login that checks only that the email is known
InvalidCredentialsEmailOnly(uid, password) == uid = NoUser

\* AuthService.login: !user || user.password !== password
InvalidCredentials(uid, password) ==
    uid = NoUser \/ users[uid].password # password

MinPasswordLength == 6

\* a minimum length that the boundary length fails
WeakPasswordInclusive(newPassword) == Len(newPassword) <= MinPasswordLength

\* AuthService.updatePassword: newPassword.length < 6
WeakPassword(newPassword) == Len(newPassword) < MinPasswordLength

\* AuthService.updateBalance: typeof newBalance !== "number" || isNaN || newBalance < 0
InvalidBalanceValue(newBalance) == newBalance < 0

\* ------------------------------------------------------------ GameService
\* String.prototype.toLowerCase over the guesses a client sends
ToLowerCase(g) == IF g = "Tails" THEN "tails" ELSE IF g = "Heads" THEN "heads" ELSE g

\* playCoinFlip: !guess || typeof amount !== "number" || amount <= 0
InvalidBetInput(guess, amount) == guess = "" \/ ~amount.num \/ amount.v <= 0

\* the funds check left out
InsufficientFundsDropped(amount, balance) == FALSE

\* amount > user.balance
InsufficientFunds(amount, balance) == amount > balance

\* const win = guess === outcome
CoinFlipWin(guess, outcome) == guess = outcome

\* a fair 2x payout instead of 1.95x
CoinFlipPayoutFair(win, amount) == IF win THEN amount * 2 ELSE 0

\* const payout = win ? amount * 1.95 : 0
CoinFlipPayout(win, amount) == IF win THEN (amount * 195) \div 100 ELSE 0

\* const newBalance = user.balance - amount + payout
CoinFlipNewBalance(balance, amount, payout) == balance - amount + payout

ROULETTE_NUMBERS == <<
    [number |-> 0, color |-> "green"], [number |-> 32, color |-> "red"],
    [number |-> 15, color |-> "black"], [number |-> 19, color |-> "red"],
    [number |-> 4, color |-> "black"], [number |-> 21, color |-> "red"],
    [number |-> 2, color |-> "black"], [number |-> 25, color |-> "red"],
    [number |-> 17, color |-> "black"], [number |-> 34, color |-> "red"],
    [number |-> 6, color |-> "black"], [number |-> 27, color |-> "red"],
    [number |-> 13, color |-> "black"], [number |-> 36, color |-> "red"],
    [number |-> 11, color |-> "black"], [number |-> 30, color |-> "red"],
    [number |-> 8, color |-> "black"], [number |-> 23, color |-> "red"],
    [number |-> 10, color |-> "black"], [number |-> 5, color |-> "red"],
    [number |-> 24, color |-> "black"], [number |-> 16, color |-> "red"],
    [number |-> 33, color |-> "black"], [number |-> 1, color |-> "red"],
    [number |-> 20, color |-> "black"], [number |-> 14, color |-> "red"],
    [number |-> 31, color |-> "black"], [number |-> 9, color |-> "red"],
    [number |-> 22, color |-> "black"], [number |-> 18, color |-> "red"],
    [number |-> 29, color |-> "black"], [number |-> 7, color |-> "red"],
    [number |-> 28, color |-> "black"], [number |-> 12, color |-> "red"],
    [number |-> 35, color |-> "black"], [number |-> 3, color |-> "red"],
    [number |-> 26, color |-> "black"] >>

\* getRandomResult: Math.floor(Math.random() * 37)
SpinResults == 0..36

NoResult == [number |-> 0 - 1, color |-> NoValue]

\* a lookup that starts at the second entry of the table
GetResultDetailsFromSecond(n) ==
    IF \E i \in 2..Len(ROULETTE_NUMBERS) : ROULETTE_NUMBERS[i].number = n
    THEN ROULETTE_NUMBERS[CHOOSE i \in 2..Len(ROULETTE_NUMBERS) : ROULETTE_NUMBERS[i].number = n]
    ELSE NoResult

\* getResultDetails: ROULETTE_NUMBERS.find((x) => x.number === n)
GetResultDetails(n) ==
    IF \E i \in DOMAIN ROULETTE_NUMBERS : ROULETTE_NUMBERS[i].number = n
    THEN ROULETTE_NUMBERS[CHOOSE i \in DOMAIN ROULETTE_NUMBERS :
            /\ ROULETTE_NUMBERS[i].number = n
            /\ \A j \in DOMAIN ROULETTE_NUMBERS : ROULETTE_NUMBERS[j].number = n => i <= j]
    ELSE NoResult

\* Number.prototype.toString for 0..36
Digits == <<"0", "1", "2", "3", "4", "5", "6", "7", "8", "9">>
NumberToString(n) ==
    IF n < 10 THEN Digits[n + 1] ELSE Digits[(n \div 10) + 1] \o Digits[(n % 10) + 1]

\* the chain with "even" not excluding the pocket 0
RouletteBetEvenZero(betType, result, resultNumber) ==
    IF betType = NumberToString(result.number) THEN [win |-> TRUE, payoutMultiplier |-> 35]
    ELSE IF betType = result.color THEN [win |-> TRUE, payoutMultiplier |-> 1]
    ELSE IF betType = "even" /\ resultNumber % 2 = 0 THEN [win |-> TRUE, payoutMultiplier |-> 1]
    ELSE IF betType = "odd" /\ resultNumber % 2 = 1 THEN [win |-> TRUE, payoutMultiplier |-> 1]
    ELSE IF betType = "1-12" /\ resultNumber >= 1 /\ resultNumber <= 12
         THEN [win |-> TRUE, payoutMultiplier |-> 2]
    ELSE IF betType = "13-24" /\ resultNumber >= 13 /\ resultNumber <= 24
         THEN [win |-> TRUE, payoutMultiplier |-> 2]
    ELSE IF betType = "25-36" /\ resultNumber >= 25 /\ resultNumber <= 36
         THEN [win |-> TRUE, payoutMultiplier |-> 2]
    ELSE [win |-> FALSE, payoutMultiplier |-> 0]

\* playRoulette: the if / else-if chain that sets win and payoutMultiplier
RouletteBet(betType, result, resultNumber) ==
    IF betType = NumberToString(result.number) THEN [win |-> TRUE, payoutMultiplier |-> 35]
    ELSE IF betType = result.color THEN [win |-> TRUE, payoutMultiplier |-> 1]
    ELSE IF betType = "even" /\ resultNumber # 0 /\ resultNumber % 2 = 0
         THEN [win |-> TRUE, payoutMultiplier |-> 1]
    ELSE IF betType = "odd" /\ resultNumber % 2 = 1 THEN [win |-> TRUE, payoutMultiplier |-> 1]
    ELSE IF betType = "1-12" /\ resultNumber >= 1 /\ resultNumber <= 12
         THEN [win |-> TRUE, payoutMultiplier |-> 2]
    ELSE IF betType = "13-24" /\ resultNumber >= 13 /\ resultNumber <= 24
         THEN [win |-> TRUE, payoutMultiplier |-> 2]
    ELSE IF betType = "25-36" /\ resultNumber >= 25 /\ resultNumber <= 36
         THEN [win |-> TRUE, payoutMultiplier |-> 2]
    ELSE [win |-> FALSE, payoutMultiplier |-> 0]

\* const payout = win ? amount * payoutMultiplier : 0
RoulettePayout(win, amount, payoutMultiplier) == IF win THEN amount * payoutMultiplier ELSE 0

\* const newBalance = win ? user.balance + payout : user.balance - amount
RouletteNewBalance(win, balance, amount, payout) ==
    IF win THEN balance + payout ELSE balance - amount


\* ------------------------------------------------------------ Controller
\* Controller.register: !username || !email || !password
RegisterMissing(username, email, password) ==
    username = "" \/ email = "" \/ password = ""

\* Controller.register up to the end of AuthService.register's findByEmail
RegisterStart(p, s, username, email, password) ==
    /\ Dispatch(p)
    /\ IF RegisterMissing(username, email, password)
       THEN /\ Send("register", s, StatusBadRequest, "Username, email, and password required",
                    NoPayload, <<>>, [email |-> email, password |-> password])
            /\ UNCHANGED <<users, session, req, expected>>
       ELSE IF FindByEmail(email) # NoUser
       THEN /\ Send("register", s, StatusBadRequest, "Email already registered",
                    NoPayload, <<>>, [email |-> email, password |-> password])
            /\ UNCHANGED <<users, session, req, expected>>
       ELSE /\ Suspend(p, [pc |-> "createUser", sess |-> s, username |-> username,
                           email |-> email, password |-> password])
            /\ session' = [session EXCEPT ![s] = Resolve(s)]
            /\ UNCHANGED <<users, resp, expected>>

\* UserModel.createUser, then the rest of Controller.register
RegisterInsert(p) ==
    /\ req[p].pc = "createUser"
    /\ LET r == req[p]
           id == Len(users) + 1
       IN
       IF UniqueViolation(r.email, NoUser)
       THEN /\ Send("register", r.sess, StatusBadRequest,
                    "duplicate key value violates unique constraint", NoPayload, <<>>,
                    [email |-> r.email, password |-> r.password])
            /\ UNCHANGED <<users, session, expected>>
       ELSE /\ Len(users) < MaxUsers
            /\ users' = CreateUser(r.username, r.email, r.password)
            /\ expected' = Append(expected, DefaultBalance)
            /\ session' = [session EXCEPT ![r.sess].user = id]
            /\ Send("register", r.sess, StatusCreated, "Registered",
                    [id |-> id, username |-> r.username, email |-> r.email,
                     balance |-> users'[id].balance],
                    <<SessionCookie(r.sess)>>, [email |-> r.email, password |-> r.password])
    /\ Resume(p)
    /\ UNCHANGED nreq

\* Controller.login: !email || !password
LoginMissing(email, password) == email = "" \/ password = ""

\* a login that stores the user found by email before it compares the password
LoginStoresFirst(p, s, email, password) ==
    /\ Dispatch(p)
    /\ LET uid == FindByEmail(email)
           in == [email |-> email, password |-> password]
       IN
       IF LoginMissing(email, password)
       THEN /\ Send("login", s, StatusBadRequest, "Email and password required",
                    NoPayload, <<>>, in)
            /\ UNCHANGED session
       ELSE IF InvalidCredentials(uid, password)
       THEN /\ Send("login", s, StatusUnauthorized, "Invalid credentials", NoPayload, <<>>, in)
            /\ session' = [session EXCEPT ![s] = [Resolve(s) EXCEPT !.user = uid]]
       ELSE /\ session' = [session EXCEPT ![s] = [Resolve(s) EXCEPT !.user = uid]]
            /\ Send("login", s, StatusOK, "Logged in",
                    [id |-> uid, username |-> users[uid].username, email |-> users[uid].email,
                     balance |-> users[uid].balance],
                    <<SessionCookie(s)>>, in)
    /\ UNCHANGED <<users, req, expected>>

\* Controller.login with AuthService.login
Login(p, s, email, password) ==
    /\ Dispatch(p)
    /\ LET uid == FindByEmail(email)
           in == [email |-> email, password |-> password]
       IN
       IF LoginMissing(email, password)
       THEN /\ Send("login", s, StatusBadRequest, "Email and password required",
                    NoPayload, <<>>, in)
            /\ UNCHANGED session
       ELSE IF InvalidCredentials(uid, password)
       THEN /\ Send("login", s, StatusUnauthorized, "Invalid credentials", NoPayload, <<>>, in)
            /\ UNCHANGED session
       ELSE /\ session' = [session EXCEPT ![s] = [Resolve(s) EXCEPT !.user = uid]]
            /\ Send("login", s, StatusOK, "Logged in",
                    [id |-> uid, username |-> users[uid].username, email |-> users[uid].email,
                     balance |-> users[uid].balance],
                    <<SessionCookie(s)>>, in)
    /\ UNCHANGED <<users, req, expected>>

\* a logout that answers without clearing the user key
LogoutKeepsUser(p, s) ==
    /\ Dispatch(p)
    /\ Send("logout", s, StatusOK, "Logged out successfully", NoPayload, <<>>,
            [uid |-> SessionUserId(s)])
    /\ UNCHANGED <<users, session, req, expected>>

\* Controller.logout with AuthService.logout: session.set("user", null)
Logout(p, s) ==
    /\ Dispatch(p)
    /\ session' = [session EXCEPT ![s] = [Resolve(s) EXCEPT !.user = NoUser]]
    /\ Send("logout", s, StatusOK, "Logged out successfully", NoPayload, <<>>,
            [uid |-> SessionUserId(s)])
    /\ UNCHANGED <<users, req, expected>>

\* Controller.playCoinFlip up to the end of GameService.playCoinFlip's getById
CoinFlipStart(p, s, guess, amount) ==
    /\ Dispatch(p)
    /\ LET uid == SessionUserId(s)
           in == [uid |-> uid, guess |-> guess, amount |-> amount,
                  read |-> IF uid \in UserIds THEN users[uid].balance ELSE 0]
       IN
       IF uid = NoUser
       THEN /\ Send("coinflip", s, StatusUnauthorized, "Not logged in", NoPayload, <<>>,
                    [uid |-> uid])
            /\ UNCHANGED req
       ELSE IF guess = NoValue
       THEN /\ Send("coinflip", s, StatusBadRequest,
                    "Cannot read properties of undefined (reading 'toLowerCase')",
                    NoPayload, <<>>, in)
            /\ UNCHANGED req
       ELSE IF InvalidBetInput(ToLowerCase(guess), amount)
       THEN /\ Send("coinflip", s, StatusBadRequest, "Invalid bet input", NoPayload, <<>>, in)
            /\ UNCHANGED req
       ELSE IF uid \notin UserIds
       THEN /\ Send("coinflip", s, StatusBadRequest, "User not found", NoPayload, <<>>, in)
            /\ UNCHANGED req
       ELSE IF InsufficientFunds(amount.v, users[uid].balance)
       THEN /\ Send("coinflip", s, StatusBadRequest, "Insufficient funds", NoPayload, <<>>, in)
            /\ UNCHANGED req
       ELSE /\ Suspend(p, [pc |-> "flipUpdate", sess |-> s, uid |-> uid,
                           guess |-> ToLowerCase(guess), amount |-> amount,
                           balance |-> users[uid].balance])
            /\ UNCHANGED resp
    /\ UNCHANGED <<users, session, expected>>

\* GameService.playCoinFlip from the draw to updateBalance, then Controller.playCoinFlip's send
CoinFlipPersist(p, outcome) ==
    /\ req[p].pc = "flipUpdate"
    /\ LET r == req[p]
           win == CoinFlipWin(r.guess, outcome)
           payout == CoinFlipPayout(win, r.amount.v)
           newBalance == CoinFlipNewBalance(r.balance, r.amount.v, payout)
       IN
       /\ users' = UpdateBalance(r.uid, newBalance)
       /\ expected' = Credit(r.uid, payout - r.amount.v)
       /\ Send("coinflip", r.sess, StatusOK, "Coin flip result",
               [outcome |-> outcome, win |-> win, payout |-> payout, newBalance |-> newBalance],
               <<>>, [uid |-> r.uid, guess |-> r.guess, amount |-> r.amount, read |-> r.balance])
    /\ Resume(p)
    /\ UNCHANGED <<session, nreq>>

\* Controller.playRoulette up to the end of GameService.playRoulette's getById
RouletteStart(p, s, betType, amount) ==
    /\ Dispatch(p)
    /\ LET uid == SessionUserId(s)
           in == [uid |-> uid, betType |-> betType, amount |-> amount,
                  read |-> IF uid \in UserIds THEN users[uid].balance ELSE 0]
       IN
       IF uid = NoUser
       THEN /\ Send("roulette", s, StatusUnauthorized, "Not logged in", NoPayload, <<>>,
                    [uid |-> uid])
            /\ UNCHANGED req
       ELSE IF uid \notin UserIds
       THEN /\ Send("roulette", s, StatusBadRequest, "User not found", NoPayload, <<>>, in)
            /\ UNCHANGED req
       ELSE IF InsufficientFunds(amount.v, users[uid].balance)
       THEN /\ Send("roulette", s, StatusBadRequest, "Insufficient funds", NoPayload, <<>>, in)
            /\ UNCHANGED req
       ELSE /\ Suspend(p, [pc |-> "spinUpdate", sess |-> s, uid |-> uid, betType |-> betType,
                           amount |-> amount, balance |-> users[uid].balance])
            /\ UNCHANGED resp
    /\ UNCHANGED <<users, session, expected>>

\* GameService.playRoulette from the spin to updateBalance, then Controller.playRoulette's send
RoulettePersist(p, resultNumber) ==
    /\ req[p].pc = "spinUpdate"
    /\ LET r == req[p]
           result == GetResultDetails(resultNumber)
           in == [uid |-> r.uid, betType |-> r.betType, amount |-> r.amount, read |-> r.balance]
       IN
       IF result = NoResult
       THEN /\ Send("roulette", r.sess, StatusBadRequest, "Invalid spin result", NoPayload,
                    <<>>, in)
            /\ UNCHANGED <<users, expected>>
       ELSE LET bet == RouletteBet(r.betType, result, resultNumber)
                payout == RoulettePayout(bet.win, r.amount.v, bet.payoutMultiplier)
                newBalance == RouletteNewBalance(bet.win, r.balance, r.amount.v, payout)
            IN
            /\ users' = UpdateBalance(r.uid, newBalance)
            /\ expected' = Credit(r.uid, payout - r.amount.v)
            /\ Send("roulette", r.sess, StatusOK, "Roulette result",
                    [result |-> result.number, color |-> result.color, win |-> bet.win,
                     payout |-> payout, newBalance |-> newBalance], <<>>, in)
    /\ Resume(p)
    /\ UNCHANGED <<session, nreq>>

\* Controller.setBalance (POST /user/balance)
SetBalance(p, s, balance) ==
    /\ Dispatch(p)
    /\ LET uid == SessionUserId(s) IN
       IF uid = NoUser
       THEN /\ Send("setBalance", s, StatusUnauthorized, "Not logged in", NoPayload, <<>>,
                    [uid |-> uid])
            /\ UNCHANGED <<users, expected>>
       ELSE IF balance < 0
       THEN /\ Send("setBalance", s, StatusBadRequest, "Invalid balance", NoPayload, <<>>,
                    [uid |-> uid, balance |-> balance])
            /\ UNCHANGED <<users, expected>>
       ELSE /\ users' = UpdateBalance(uid, balance)
            /\ expected' = Reset(uid, balance)
            /\ Send("setBalance", s, StatusOK, "Balance updated", [balance |-> balance], <<>>,
                    [uid |-> uid, balance |-> balance])
    /\ UNCHANGED <<session, req>>

\* Controller.updateBalance (POST /api/users/updateBalance) with AuthService.updateBalance
UpdateBalanceRoute(p, s, newBalance) ==
    /\ Dispatch(p)
    /\ LET uid == SessionUserId(s) IN
       IF uid = NoUser
       THEN /\ Send("updateBalance", s, StatusUnauthorized, "Not logged in", NoPayload, <<>>,
                    [uid |-> uid])
            /\ UNCHANGED <<users, expected>>
       ELSE IF InvalidBalanceValue(newBalance)
       THEN /\ Send("updateBalance", s, StatusBadRequest, "Invalid balance value", NoPayload,
                    <<>>, [uid |-> uid, balance |-> newBalance])
            /\ UNCHANGED <<users, expected>>
       ELSE /\ users' = UpdateBalance(uid, newBalance)
            /\ expected' = Reset(uid, newBalance)
            /\ Send("updateBalance", s, StatusOK, "Balance updated", NoPayload, <<>>,
                    [uid |-> uid, balance |-> newBalance])
    /\ UNCHANGED <<session, req>>

\* Controller.updateProfile: SELECT id FROM users WHERE email = email AND id != userId
EmailTakenByOther(email, userId) ==
    \E i \in UserIds : i # userId /\ users[i].email = email

\* UPDATE users SET username = name || null, email = email: the row the statement leaves
UpdateUser(id, name, email) ==
    [i \in UserIds |-> IF i = id THEN [users[i] EXCEPT !.username = name, !.email = email]
                       ELSE users[i]]

\* Controller.updateProfile up to the end of its SELECT (email taken by another user)
UpdateProfileStart(p, s, name, email) ==
    /\ Dispatch(p)
    /\ LET uid == SessionUserId(s)
           in == [uid |-> uid, email |-> email]
       IN
       IF uid = NoUser
       THEN /\ Send("updateProfile", s, StatusUnauthorized, "Not authenticated", NoPayload,
                    <<>>, [uid |-> uid])
            /\ UNCHANGED req
       ELSE IF email = ""
       THEN /\ Send("updateProfile", s, StatusBadRequest, "Email is required", NoPayload,
                    <<>>, in)
            /\ UNCHANGED req
       ELSE IF EmailTakenByOther(email, uid)
       THEN /\ Send("updateProfile", s, StatusBadRequest, "Email is already taken", NoPayload,
                    <<>>, in)
            /\ UNCHANGED req
       ELSE /\ Suspend(p, [pc |-> "profileUpdate", sess |-> s, uid |-> uid, name |-> name,
                           email |-> email])
            /\ UNCHANGED resp
    /\ UNCHANGED <<users, session, expected>>

\* Controller.updateProfile from its UPDATE on; username is NOT NULL and email is UNIQUE
UpdateProfileWrite(p) ==
    /\ req[p].pc = "profileUpdate"
    /\ LET r == req[p]
           in == [uid |-> r.uid, email |-> r.email]
       IN
       IF r.name = "" \/ UniqueViolation(r.email, r.uid)
       THEN /\ Send("updateProfile", r.sess, StatusInternalServerError,
                    "Failed to update profile", NoPayload, <<>>, in)
            /\ UNCHANGED <<users, session>>
       ELSE IF r.uid \notin UserIds
       THEN /\ Send("updateProfile", r.sess, StatusNotFound, "User not found", NoPayload,
                    <<>>, in)
            /\ UNCHANGED <<users, session>>
       ELSE /\ users' = UpdateUser(r.uid, r.name, r.email)
            /\ session' = [session EXCEPT ![r.sess].userEmail = r.email]
            /\ Send("updateProfile", r.sess, StatusOK, "Profile updated successfully",
                    [id |-> r.uid, username |-> r.name, email |-> r.email,
                     balance |-> users[r.uid].balance], <<>>, in)
    /\ Resume(p)
    /\ UNCHANGED <<expected, nreq>>

\* Controller.profile with AuthService.getProfile
Profile(p, s) ==
    /\ Dispatch(p)
    /\ LET uid == SessionUserId(s) IN
       IF uid = NoUser
       THEN Send("profile", s, StatusUnauthorized, "Not logged in", NoPayload, <<>>,
                 [uid |-> uid])
       ELSE IF uid \notin UserIds
       THEN Send("profile", s, StatusNotFound, "User not found", NoPayload, <<>>,
                 [uid |-> uid])
       ELSE Send("profile", s, StatusOK, "Profile fetched", GetById(uid), <<>>, [uid |-> uid])
    /\ UNCHANGED <<users, session, req, expected>>

\* Controller.playBlackjack: the stub answers every request
PlayBlackjack(p, s) ==
    /\ Dispatch(p)
    /\ Send("blackjack", s, StatusOK, "Blackjack result", [win |-> FALSE, payout |-> 0],
            <<>>, [uid |-> SessionUserId(s)])
    /\ UNCHANGED <<users, session, req, expected>>

LeaderboardLimit == 10

\* ORDER BY balance DESC: the orders of the rows the statement may return
LeaderboardOrders ==
    {f \in [1..Len(users) -> UserIds] :
        /\ \A i, j \in 1..Len(users) : f[i] = f[j] => i = j
        /\ \A i, j \in 1..Len(users) : i < j => users[f[i]].balance >= users[f[j]].balance}

\* SELECT id, username, email, balance FROM users ORDER BY balance DESC LIMIT 10
LeaderboardRows(f) ==
    [k \in 1..(IF Len(users) < LeaderboardLimit THEN Len(users) ELSE LeaderboardLimit) |->
        [id |-> f[k], username |-> users[f[k]].username, email |-> users[f[k]].email,
         balance |-> users[f[k]].balance]]

\* Controller.getLeaderboard
GetLeaderboard(p, s) ==
    /\ Dispatch(p)
    /\ \E f \in LeaderboardOrders :
          Send("leaderboard", s, StatusOK, "Leaderboard retrieved successfully",
               LeaderboardRows(f), <<>>, [uid |-> SessionUserId(s)])
    /\ UNCHANGED <<users, session, req, expected>>

\* AuthService.updatePassword up to its last check, as Controller.updatePassword sends
\* what it throws
PasswordCheck(p, s, userId, currentPassword, newPassword) ==
    LET in == [uid |-> userId, currentPassword |-> currentPassword,
               newPassword |-> newPassword,
               read |-> IF userId \in UserIds THEN users[userId].password ELSE NoValue]
    IN
    IF userId \notin UserIds
    THEN /\ Send("updatePassword", s, StatusBadRequest, "User not found", NoPayload, <<>>, in)
         /\ UNCHANGED req
    ELSE IF users[userId].password # currentPassword
    THEN /\ Send("updatePassword", s, StatusBadRequest, "Current password is incorrect",
                 NoPayload, <<>>, in)
         /\ UNCHANGED req
    ELSE IF newPassword = NoValue
    THEN /\ Send("updatePassword", s, StatusBadRequest,
                 "Cannot read properties of undefined (reading 'length')", NoPayload, <<>>, in)
         /\ UNCHANGED req
    ELSE IF WeakPassword(newPassword)
    THEN /\ Send("updatePassword", s, StatusBadRequest,
                 "New password must be at least 6 characters", NoPayload, <<>>, in)
         /\ UNCHANGED req
    ELSE /\ Suspend(p, [pc |-> "passwordUpdate", sess |-> s, uid |-> userId,
                        currentPassword |-> currentPassword, newPassword |-> newPassword,
                        read |-> users[userId].password])
         /\ UNCHANGED resp

\* Controller.updatePassword up to the end of AuthService.updatePassword's checks
UpdatePasswordStart(p, s, currentPassword, newPassword) ==
    /\ Dispatch(p)
    /\ LET uid == SessionUserId(s) IN
       IF uid = NoUser
       THEN /\ Send("updatePassword", s, StatusUnauthorized, "Not authenticated", NoPayload,
                    <<>>, [uid |-> uid])
            /\ UNCHANGED req
       ELSE PasswordCheck(p, s, uid, currentPassword, newPassword)
    /\ UNCHANGED <<users, session, expected>>

\* AuthService.updatePassword called for any user id
UpdatePasswordCall(p, s, userId, currentPassword, newPassword) ==
    /\ Dispatch(p)
    /\ PasswordCheck(p, s, userId, currentPassword, newPassword)
    /\ UNCHANGED <<users, session, expected>>

\* UserModel.updatePassword, then Controller.updatePassword's send
UpdatePasswordWrite(p) ==
    /\ req[p].pc = "passwordUpdate"
    /\ LET r == req[p] IN
       /\ users' = UpdatePasswordRow(r.uid, r.newPassword)
       /\ Send("updatePassword", r.sess, StatusOK, "Password updated successfully", NoPayload,
               <<>>, [uid |-> r.uid, currentPassword |-> r.currentPassword,
                      newPassword |-> r.newPassword, read |-> r.read])
    /\ Resume(p)
    /\ UNCHANGED <<session, expected, nreq>>

\* Session.destroy, called by the session store on a session it drops
SessionDestroy(s) ==
    /\ session[s] # DestroyedSession
    /\ session' = [session EXCEPT ![s] = DestroyedSession]
    /\ UNCHANGED <<users, req, resp, expected, nreq>>

\* Date.now() passes the expiry of the session's cookie
CookieLapses(s) ==
    /\ ~IsExpired(s)
    /\ session' = [session EXCEPT ![s].expires = "past"]
    /\ UNCHANGED <<users, req, resp, expected, nreq>>

\* ---- handlers whose database call rejects

\* err.message of a rejected database call
SqlErrorMessage == "connection refused"

\* a handler's database call rejects inside its try block, and its catch block sends
CaughtSqlFailure(p, s, route, status, message) ==
    /\ Dispatch(p)
    /\ Send(route, s, status, message, NoPayload, <<>>, [uid |-> SessionUserId(s)])
    /\ UNCHANGED <<users, session, req, expected>>

\* Controller.register: findByEmail or createUser rejects
RegisterSqlFails(p, s, username, email, password) ==
    /\ ~RegisterMissing(username, email, password)
    /\ CaughtSqlFailure(p, s, "register", StatusBadRequest, SqlErrorMessage)

\* Controller.login: findByEmail rejects
LoginSqlFails(p, s, email, password) ==
    /\ ~LoginMissing(email, password)
    /\ CaughtSqlFailure(p, s, "login", StatusUnauthorized, SqlErrorMessage)

\* Controller.playRoulette: getById rejects
RouletteSqlFails(p, s) ==
    /\ SessionUserId(s) # NoUser
    /\ CaughtSqlFailure(p, s, "roulette", StatusBadRequest, SqlErrorMessage)

\* Controller.playCoinFlip: getById rejects
CoinFlipSqlFails(p, s, guess, amount) ==
    /\ SessionUserId(s) # NoUser
    /\ guess # NoValue /\ ~InvalidBetInput(ToLowerCase(guess), amount)
    /\ CaughtSqlFailure(p, s, "coinflip", StatusBadRequest, SqlErrorMessage)

\* a settlement's updateBalance rejects after the draw
PersistSqlFails(p) ==
    /\ req[p].pc \in {"flipUpdate", "spinUpdate"}
    /\ Send(IF req[p].pc = "flipUpdate" THEN "coinflip" ELSE "roulette", req[p].sess,
            StatusBadRequest, SqlErrorMessage, NoPayload, <<>>, [uid |-> req[p].uid])
    /\ Resume(p)
    /\ UNCHANGED <<users, session, expected, nreq>>

\* Controller.profile: getById rejects
ProfileSqlFails(p, s) ==
    /\ SessionUserId(s) # NoUser
    /\ CaughtSqlFailure(p, s, "profile", StatusInternalServerError, SqlErrorMessage)

\* Controller.setBalance: the UPDATE rejects; the handler has no try block, so its
\* promise rejects and it never reaches res.send
SetBalanceSqlFails(p, s, balance) ==
    /\ SessionUserId(s) # NoUser
    /\ ~(balance < 0)
    /\ Dispatch(p)
    /\ UNCHANGED <<users, session, req, resp, expected>>

\* Controller.updateBalance: updateBalance rejects
UpdateBalanceRouteSqlFails(p, s, newBalance) ==
    /\ SessionUserId(s) # NoUser
    /\ ~InvalidBalanceValue(newBalance)
    /\ CaughtSqlFailure(p, s, "updateBalance", StatusBadRequest, SqlErrorMessage)

\* Controller.getLeaderboard: the SELECT rejects
GetLeaderboardSqlFails(p, s) ==
    CaughtSqlFailure(p, s, "leaderboard", StatusInternalServerError, "Failed to fetch leaderboard")

\* Controller.updateProfile: the SELECT or the UPDATE rejects
UpdateProfileSqlFails(p, s, email) ==
    /\ SessionUserId(s) # NoUser
    /\ email # ""
    /\ CaughtSqlFailure(p, s, "updateProfile", StatusInternalServerError,
                        "Failed to update profile")

\* Controller.updatePassword: getById or updatePassword rejects
UpdatePasswordSqlFails(p, s) ==
    /\ SessionUserId(s) # NoUser
    /\ CaughtSqlFailure(p, s, "updatePassword", StatusBadRequest, SqlErrorMessage)

\* ------------------------------------------------------------ BlackjackPage
BLACKJACK == 21
DEALER_STAND == 17

\* the values of the cards of the deck API
Ranks == {"ACE", "2", "3", "4", "5", "6", "7", "8", "9", "10", "JACK", "QUEEN", "KING"}

\* parseInt(v, 10) over the numeral card values
CardNumerals == <<"0", "1", "2", "3", "4", "5", "6", "7", "8", "9", "10">>
ParseInt(v) == (CHOOSE i \in DOMAIN CardNumerals : CardNumerals[i] = v) - 1

\* getHandValue: the forEach that adds 10, 11 or parseInt(v) per card
RECURSIVE SumCards(_)
SumCards(cards) ==
    IF cards = <<>> THEN 0
    ELSE LET v == Head(cards) IN
         (IF v \in {"KING", "QUEEN", "JACK"} THEN 10
          ELSE IF v = "ACE" THEN 11
          ELSE ParseInt(v)) + SumCards(Tail(cards))

\* getHandValue: aces++
CountAces(cards) == Cardinality({i \in DOMAIN cards : cards[i] = "ACE"})

\* a loop that demotes one ace at most
DemoteOnce(total, aces) ==
    IF total > BLACKJACK /\ aces > 0 THEN total - 10 ELSE total

\* getHandValue: while (total > BLACKJACK && aces > 0) { total -= 10; aces--; }
RECURSIVE Demote(_, _)
Demote(total, aces) ==
    IF total > BLACKJACK /\ aces > 0 THEN Demote(total - 10, aces - 1) ELSE total

\* getHandValue(cards)
GetHandValue(cards) == Demote(SumCards(cards), CountAces(cards))

\* the hands getHandValue is evaluated on
MaxHandLen == 3
HandInputs == UNION {[1..n -> Ranks] : n \in 1..MaxHandLen}
NotEvaluated == 0 - 1

\* the page before BlackjackPage is mounted
\* no round dealt yet
NoRound ==
    [deals |-> 0, bet |-> 0, balanceAtDeal |-> 0, insurance |-> "none",
     balanceAtInsurance |-> 0, split |-> FALSE, stakes |-> 0, returns |-> 0, settles |-> 0]

PageNotMounted ==
    /\ ui = [mounted |-> FALSE]
    /\ heap = <<>>
    /\ tasks = <<>>
    /\ round = NoRound
    /\ shoe = 0
    /\ eval = [cards |-> <<>>, value |-> NotEvaluated]

\* a call of getHandValue on one hand
EvaluateHand ==
    /\ eval.value = NotEvaluated
    /\ eval' = [eval EXCEPT !.value = GetHandValue(eval.cards)]
    /\ UNCHANGED <<ui, heap, tasks, round, shoe>>
    /\ UNCHANGED serverVars

InitHandValue ==
    /\ users = <<>>
    /\ session = [s \in Sessions |-> FreshSession]
    /\ req = [p \in Procs |-> Idle]
    /\ resp = NoResp
    /\ expected = <<>>
    /\ nreq = 0
    /\ loggedOut = [s \in Sessions |-> FALSE]
    /\ ui = [mounted |-> FALSE]
    /\ heap = <<>>
    /\ tasks = <<>>
    /\ round = NoRound
    /\ shoe = 0
    /\ eval \in {[cards |-> h, value |-> NotEvaluated] : h \in HandInputs}

SpecHandValue == InitHandValue /\ [][EvaluateHand]_vars

\* ---- the page's state, its closures and its pending continuations
\* the chips of the bet controls that the model places
ChipValues == {5, 10}
StartBalances == {10, 20}
MaxStake == 10
MaxDeals == 1
MaxTasks == 1
MaxShoe == 9

\* the card values the deck deals
DrawRanks == {"ACE", "KING", "5"}
\* data.success of a draw
DrawOutcomes == {TRUE}

\* useState(...) of BlackjackPage at the first render, with user.balance
MountedPage(balance) ==
    [mounted |-> TRUE, bet |-> 0, inGame |-> FALSE, dealerHand |-> <<>>, playerHands |-> <<>>,
     bets |-> <<>>, currentHand |-> 0, message |-> "", gameOver |-> FALSE,
     showInsurance |-> FALSE, playerBlackjack |-> FALSE, balance |-> balance]

\* the cards of a player hand: playerHands[i] of a closure, as the array holds them now
CardsOf(c, h, i) == h[c.playerHands[i + 1]]

\* the state the setters of one handler leave: [ui, heap, tasks]
Now == [ui |-> ui, heap |-> heap, tasks |-> tasks, round |-> round]
Apply(st) == ui' = st.ui /\ heap' = st.heap /\ tasks' = st.tasks /\ round' = st.round

\* history: the handler takes amt from the balance as a stake
Staked(st, amt) == [st EXCEPT !.round.stakes = @ + amt]
\* history: the handler adds amt to the balance as a return
Returned(st, amt) == [st EXCEPT !.round.returns = @ + amt]

\* tasks without its k-th element
Without(seq, k) == SubSeq(seq, 1, k - 1) \o SubSeq(seq, k + 1, Len(seq))

\* Math.floor(b * 1.5)
BlackjackWin(b) == (b * 3) \div 2

\* updateUserBalance(newBalance): updateBalance(newBalance) and the POST of the same value
UpdateUserBalance(st, newBalance) == [st EXCEPT !.ui.balance = newBalance]

\* the action buttons are rendered for the current hand
ActionButtons ==
    /\ ui.mounted
    /\ ui.playerHands # <<>>
    /\ ui.currentHand < Len(ui.playerHands)
    /\ ui.inGame /\ ~ui.gameOver /\ ~ui.showInsurance
    /\ LET hand == CardsOf(ui, heap, ui.currentHand) IN
          /\ ~(GetHandValue(hand) = BLACKJACK /\ Len(hand) = 2)
          /\ ~(GetHandValue(hand) > BLACKJACK)

\* the bet controls are rendered
BetControls == ui.mounted /\ ui.playerHands = <<>>

\* placeBet(amt), on a chip that is not disabled
PlaceBet(amt) ==
    /\ BetControls
    /\ ~(amt > ui.balance \/ ui.inGame)
    /\ ui.bet + amt <= MaxStake
    /\ IF amt <= ui.balance
       THEN Apply(UpdateUserBalance([Now EXCEPT !.ui.bet = @ + amt], ui.balance - amt))
       ELSE UNCHANGED <<ui, heap, tasks, round>>
    /\ UNCHANGED <<shoe, eval>>
    /\ UNCHANGED serverVars

\* clearBet()
ClearBet ==
    /\ BetControls
    /\ ui.bet > 0
    /\ IF ui.inGame
       THEN UNCHANGED <<ui, heap, tasks, round>>
       ELSE Apply([UpdateUserBalance(Now, ui.balance + ui.bet) EXCEPT !.ui.bet = 0])
    /\ UNCHANGED <<shoe, eval>>
    /\ UNCHANGED serverVars

\* deal() up to its fetch of four cards
Deal ==
    /\ BetControls
    /\ ui.bet # 0
    /\ round.deals < MaxDeals
    /\ IF ui.bet <= 0
       THEN UNCHANGED <<ui, heap, tasks, round>>
       ELSE /\ Apply([Now EXCEPT !.ui.dealerHand = <<>>, !.ui.playerHands = <<>>, !.ui.bets = <<>>,
                                 !.ui.currentHand = 0, !.ui.message = "", !.ui.gameOver = FALSE,
                                 !.ui.showInsurance = FALSE, !.ui.playerBlackjack = FALSE,
                                 !.tasks = Append(@, [kind |-> "deal", snap |-> ui]),
                                 !.round = [deals |-> round.deals + 1,
                                            bet |-> ui.bet, balanceAtDeal |-> ui.balance,
                                            insurance |-> "none", balanceAtInsurance |-> 0,
                                            split |-> FALSE, stakes |-> ui.bet, returns |-> 0,
                                            settles |-> 0]])
    /\ UNCHANGED <<shoe, eval>>
    /\ UNCHANGED serverVars

\* deal() from the answer of the fetch on
DealResume(k, cards, success) ==
    /\ k \in DOMAIN tasks /\ tasks[k].kind = "deal"
    /\ LET c == tasks[k].snap
           st == [Now EXCEPT !.tasks = Without(@, k)]
       IN
       IF ~success
       THEN /\ Apply([st EXCEPT !.ui.message = "New deck created. Please deal again."])
            /\ UNCHANGED shoe
       ELSE LET d == <<cards[1], cards[3]>>
                p == <<cards[2], cards[4]>>
                id == Len(heap) + 1
                dealt == [st EXCEPT !.heap = Append(@, p), !.ui.dealerHand = d,
                                    !.ui.playerHands = <<id>>, !.ui.bets = <<c.bet>>,
                                    !.ui.bet = 0, !.ui.inGame = TRUE]
            IN
            /\ shoe' = shoe - 4
            /\ IF d[1] = "ACE"
               THEN Apply([dealt EXCEPT !.ui.showInsurance = TRUE,
                                        !.ui.message = "Insurance? Dealer is showing an Ace."])
               ELSE IF GetHandValue(p) = BLACKJACK
               THEN LET shown == [dealt EXCEPT !.ui.playerBlackjack = TRUE, !.ui.inGame = FALSE,
                                               !.ui.gameOver = TRUE]
                    IN
                    IF GetHandValue(d) = BLACKJACK
                    THEN Apply([Returned(UpdateUserBalance(shown, c.balance + c.bet), c.bet) EXCEPT
                                  !.ui.message = "Blackjack! Dealer also has blackjack. Push - bet returned."])
                    ELSE Apply([Returned(UpdateUserBalance(shown, c.balance + c.bet + BlackjackWin(c.bet)),
                                       c.bet + BlackjackWin(c.bet))
                                  EXCEPT !.ui.message = "Blackjack! You win"])
               ELSE Apply(dealt)
    /\ UNCHANGED eval
    /\ UNCHANGED serverVars

\* the natural of the player's first hand paid after the insurance decision
PayPlayerBlackjack(st, c) ==
    [Returned(UpdateUserBalance(st, c.balance + c.bets[1] + BlackjackWin(c.bets[1])),
            c.bets[1] + BlackjackWin(c.bets[1])) EXCEPT
        !.ui.playerBlackjack = TRUE, !.ui.inGame = FALSE, !.ui.gameOver = TRUE,
        !.ui.message = "Blackjack! You win"]

\* Math.floor(bets[0] / 2)
InsuranceCost(b) == b \div 2

\* placeInsurance()
PlaceInsurance ==
    /\ ui.mounted /\ ui.playerHands # <<>> /\ ui.showInsurance
    /\ LET c == ui
           cost == InsuranceCost(c.bets[1])
       IN
       IF cost <= c.balance
       THEN LET bought == [Staked(UpdateUserBalance(Now, c.balance - cost), cost) EXCEPT
                                !.ui.showInsurance = FALSE, !.round.insurance = "bought",
                                !.round.balanceAtInsurance = c.balance]
            IN
               IF GetHandValue(c.dealerHand) = BLACKJACK
               THEN Apply([Returned(UpdateUserBalance(bought, c.balance + cost * 3), cost * 3) EXCEPT
                             !.ui.message = "Dealer has blackjack. Insurance pays 2:1. You break even.",
                             !.ui.inGame = FALSE, !.ui.gameOver = TRUE])
               ELSE LET lost == [bought EXCEPT
                                   !.ui.message = "Dealer doesn't have blackjack. Insurance lost."]
                    IN
                    IF GetHandValue(CardsOf(c, heap, 0)) = BLACKJACK
                    THEN Apply(PayPlayerBlackjack(lost, c))
                    ELSE Apply(lost)
       ELSE Apply([Now EXCEPT !.ui.message = "Not enough for insurance.",
                              !.ui.showInsurance = FALSE, !.round.insurance = "unaffordable",
                              !.round.balanceAtInsurance = c.balance])
    /\ UNCHANGED <<shoe, eval>>
    /\ UNCHANGED serverVars

\* declineInsurance()
DeclineInsurance ==
    /\ ui.mounted /\ ui.playerHands # <<>> /\ ui.showInsurance
    /\ LET c == ui
           declined == [Now EXCEPT !.ui.showInsurance = FALSE, !.ui.message = "",
                                   !.round.insurance = "declined",
                                   !.round.balanceAtInsurance = ui.balance]
       IN
       IF GetHandValue(CardsOf(c, heap, 0)) = BLACKJACK
       THEN Apply(PayPlayerBlackjack(declined, c))
       ELSE Apply(declined)
    /\ UNCHANGED <<shoe, eval>>
    /\ UNCHANGED serverVars

\* nextHand() of the closure c
NextHand(st, c) ==
    IF c.currentHand + 1 < Len(c.playerHands)
    THEN [st EXCEPT !.ui.currentHand = @ + 1]
    ELSE [st EXCEPT !.ui.inGame = FALSE,
                    !.tasks = Append(@, [kind |-> "dealerPlay", snap |-> c])]

HitStartUnchecked(kind) ==
    LET c == ui IN
    IF ~c.inGame \/ c.gameOver
    THEN Now
    ELSE [Now EXCEPT !.tasks = Append(@, [kind |-> kind, snap |-> c])]

\* hit() up to its fetch of one card, for the caller `kind` that awaits it
HitStart(kind) ==
    LET c == ui IN
    IF ~c.inGame \/ c.gameOver \/ GetHandValue(CardsOf(c, heap, c.currentHand)) >= 21
    THEN Now
    ELSE [Now EXCEPT !.tasks = Append(@, [kind |-> kind, snap |-> c])]

\* hit() from the answer of the fetch on
HitEnd(st, c, card, success) ==
    IF ~success
    THEN [st EXCEPT !.ui.message = "Error drawing card. Please start a new game.",
                    !.ui.gameOver = TRUE]
    ELSE LET id == c.playerHands[c.currentHand + 1]
             pushed == [st EXCEPT !.heap[id] = Append(@, card), !.ui.playerHands = c.playerHands]
             handValue == GetHandValue(pushed.heap[id])
         IN
         IF handValue > BLACKJACK THEN NextHand(pushed, c)
         ELSE IF handValue = 21
         THEN [pushed EXCEPT !.tasks = Append(@, [kind |-> "nextHand", snap |-> c])]
         ELSE pushed

\* the Hit button
Hit ==
    /\ ActionButtons
    /\ Apply(HitStart("hit"))
    /\ UNCHANGED <<shoe, eval>>
    /\ UNCHANGED serverVars

\* the answer of the deck to a hit
HitResume(k, card, success) ==
    /\ k \in DOMAIN tasks /\ tasks[k].kind = "hit"
    /\ Apply(HitEnd([Now EXCEPT !.tasks = Without(@, k)], tasks[k].snap, card, success))
    /\ shoe' = IF success THEN shoe - 1 ELSE shoe
    /\ UNCHANGED eval
    /\ UNCHANGED serverVars

\* setTimeout(() => nextHand(), 500) fires
NextHandTimer(k) ==
    /\ k \in DOMAIN tasks /\ tasks[k].kind = "nextHand"
    /\ Apply(NextHand([Now EXCEPT !.tasks = Without(@, k)], tasks[k].snap))
    /\ UNCHANGED <<shoe, eval>>
    /\ UNCHANGED serverVars

\* stand()
Stand ==
    /\ ActionButtons
    /\ IF ~ui.inGame \/ ui.gameOver THEN UNCHANGED <<ui, heap, tasks, round>> ELSE Apply(NextHand(Now, ui))
    /\ UNCHANGED <<shoe, eval>>
    /\ UNCHANGED serverVars

\* doubleDown() up to the fetch of its hit()
DoubleDown ==
    /\ ActionButtons
    /\ ~(ui.balance < ui.bets[ui.currentHand + 1]
            \/ Len(CardsOf(ui, heap, ui.currentHand)) # 2)
    /\ LET c == ui
           b == c.bets[c.currentHand + 1]
       IN
       IF ~c.inGame \/ c.gameOver \/ c.balance < b \/ Len(CardsOf(c, heap, c.currentHand)) # 2
       THEN UNCHANGED <<ui, heap, tasks, round>>
       ELSE LET started == HitStart("doubleHit")
                doubled == [Staked(started, b) EXCEPT !.ui.balance = c.balance - b,
                                           !.ui.bets = [c.bets EXCEPT ![c.currentHand + 1] = b * 2]]
            IN
            IF started.tasks = tasks
            THEN Apply(NextHand(doubled, c))
            ELSE Apply(doubled)
    /\ UNCHANGED <<shoe, eval>>
    /\ UNCHANGED serverVars

\* doubleDown() from the end of its hit() on: nextHand()
DoubleResume(k, card, success) ==
    /\ k \in DOMAIN tasks /\ tasks[k].kind = "doubleHit"
    /\ LET c == tasks[k].snap IN
       Apply(NextHand(HitEnd([Now EXCEPT !.tasks = Without(@, k)], c, card, success), c))
    /\ shoe' = IF success THEN shoe - 1 ELSE shoe
    /\ UNCHANGED eval
    /\ UNCHANGED serverVars

CanSplitUnfunded ==
    /\ ui.inGame /\ ~ui.gameOver /\ ui.playerHands # <<>>
    /\ ui.currentHand < Len(ui.playerHands)
    /\ LET h == CardsOf(ui, heap, ui.currentHand) IN
          /\ Len(h) = 2
          /\ h[1] = h[2]

\* canSplit()
CanSplit ==
    /\ ui.inGame /\ ~ui.gameOver /\ ui.playerHands # <<>>
    /\ ui.currentHand < Len(ui.playerHands)
    /\ LET h == CardsOf(ui, heap, ui.currentHand) IN
          /\ Len(h) = 2
          /\ h[1] = h[2]
          /\ ui.balance >= ui.bets[ui.currentHand + 1]

\* array.splice(i, 1, a, b), for the 0-based i
Splice(seq, i, a, b) == SubSeq(seq, 1, i) \o <<a, b>> \o SubSeq(seq, i + 2, Len(seq))

\* split() up to its fetch of two cards
Split ==
    /\ ActionButtons
    /\ CanSplit
    /\ LET c == ui
           h == CardsOf(c, heap, c.currentHand)
           b == c.bets[c.currentHand + 1]
           id == Len(heap) + 1
           allHands == Splice(c.playerHands, c.currentHand, id, id + 1)
       IN
       Apply([Staked(UpdateUserBalance(Now, c.balance - b), b) EXCEPT
                !.round.split = TRUE,
                !.heap = @ \o <<(<<h[1]>>), (<<h[2]>>)>>,
                !.ui.bets = Splice(c.bets, c.currentHand, b, b),
                !.tasks = Append(@, [kind |-> "split", snap |-> c, allHands |-> allHands])])
    /\ UNCHANGED <<shoe, eval>>
    /\ UNCHANGED serverVars

\* split() from the answer of the fetch on
SplitResume(k, cards, success) ==
    /\ k \in DOMAIN tasks /\ tasks[k].kind = "split"
    /\ LET c == tasks[k].snap
           allHands == tasks[k].allHands
           st == [Now EXCEPT !.tasks = Without(@, k)]
       IN
       IF success
       THEN Apply([st EXCEPT !.heap[allHands[c.currentHand + 1]] = Append(@, cards[1]),
                             !.heap[allHands[c.currentHand + 2]] = Append(@, cards[2]),
                             !.ui.playerHands = allHands])
       ELSE Apply([st EXCEPT !.ui.message = "Error drawing cards. Please start a new game.",
                             !.ui.gameOver = TRUE])
    /\ shoe' = IF success THEN shoe - 2 ELSE shoe
    /\ UNCHANGED eval
    /\ UNCHANGED serverVars

HandWinningsBonus(c, h, dv, i) ==
    LET ph == CardsOf(c, h, i)
        pv == GetHandValue(ph)
        b == c.bets[i + 1]
    IN
    IF c.playerBlackjack /\ i = 0 /\ Len(ph) = 2 /\ pv = BLACKJACK THEN 0
    ELSE IF pv = BLACKJACK /\ Len(ph) = 2 THEN b + BlackjackWin(b)
    ELSE IF pv > BLACKJACK THEN 0
    ELSE IF dv > BLACKJACK \/ pv > dv THEN b + b
    ELSE IF pv = dv THEN b
    ELSE 0

\* settle: what the forEach adds to totalWinnings for hand i of the closure
HandWinnings(c, h, dv, i) ==
    LET ph == CardsOf(c, h, i)
        pv == GetHandValue(ph)
        b == c.bets[i + 1]
    IN
    IF c.playerBlackjack /\ i = 0 /\ Len(ph) = 2 /\ pv = BLACKJACK THEN 0
    ELSE IF pv = BLACKJACK /\ Len(ph) = 2
    THEN (IF Len(c.playerHands) = 1 THEN b + BlackjackWin(b) ELSE b * 2)
    ELSE IF pv > BLACKJACK THEN 0
    ELSE IF dv > BLACKJACK \/ pv > dv THEN b + b
    ELSE IF pv = dv THEN b
    ELSE 0

RECURSIVE TotalWinnings(_, _, _, _)
TotalWinnings(c, h, dv, n) ==
    IF n = 0 THEN 0 ELSE TotalWinnings(c, h, dv, n - 1) + HandWinnings(c, h, dv, n - 1)

\* settle(dh)
Settle(st, c, dh) ==
    LET totalWinnings == TotalWinnings(c, st.heap, GetHandValue(dh), Len(c.playerHands)) IN
    [Returned(UpdateUserBalance(st, c.balance + totalWinnings), totalWinnings) EXCEPT
        !.round.settles = @ + 1,
        !.ui.message = IF totalWinnings > 0 THEN "returned" ELSE "You lose",
        !.ui.gameOver = TRUE]

\* dealerPlay(): one turn of its loop, or settle(dh)
DealerTurn(st, c, dh, allBusted) ==
    IF ~allBusted /\ GetHandValue(dh) < DEALER_STAND
    THEN [st EXCEPT !.tasks = Append(@, [kind |-> "dealerDraw", snap |-> c, dh |-> dh])]
    ELSE Settle(st, c, dh)

\* setTimeout(() => dealerPlay(), DEAL_DELAY) fires: dealerPlay() up to its first fetch
DealerPlay(k) ==
    /\ k \in DOMAIN tasks /\ tasks[k].kind = "dealerPlay"
    /\ LET c == tasks[k].snap
           dh == c.dealerHand
           allBusted == \A i \in 0..(Len(c.playerHands) - 1) :
                           GetHandValue(CardsOf(c, heap, i)) > BLACKJACK
       IN
       Apply(DealerTurn([Now EXCEPT !.tasks = Without(@, k), !.ui.dealerHand = dh],
                        c, dh, allBusted))
    /\ UNCHANGED <<shoe, eval>>
    /\ UNCHANGED serverVars

\* dealerPlay() from the answer to one of its fetches on
DealerDraw(k, card, success) ==
    /\ k \in DOMAIN tasks /\ tasks[k].kind = "dealerDraw"
    /\ LET c == tasks[k].snap
           dh == tasks[k].dh
           st == [Now EXCEPT !.tasks = Without(@, k)]
       IN
       IF success
       THEN Apply(DealerTurn([st EXCEPT !.ui.dealerHand = Append(dh, card)], c,
                             Append(dh, card), FALSE))
       ELSE Apply(Settle([st EXCEPT !.ui.message =
                            "Error during dealer's turn. Game settled with current cards."],
                         c, dh))
    /\ shoe' = IF success THEN shoe - 1 ELSE shoe
    /\ UNCHANGED eval
    /\ UNCHANGED serverVars

\* startNewGame()
StartNewGame ==
    /\ ui.mounted /\ ui.playerHands # <<>> /\ ui.gameOver
    /\ Apply([Now EXCEPT !.ui.gameOver = FALSE, !.ui.playerHands = <<>>, !.ui.dealerHand = <<>>,
                         !.ui.bets = <<>>, !.ui.message = "", !.ui.playerBlackjack = FALSE,
                         !.ui.inGame = FALSE])
    /\ UNCHANGED <<shoe, eval>>
    /\ UNCHANGED serverVars

\* the answers of the deck: success with cards while the shoe holds them
CanDraw(n, success) == success => shoe >= n

\* chips are placed and cleared before the last deal, and while the cards of a deal
\* are awaited when fewer than maxTasks continuations are pending
BetsOpen(maxTasks) ==
    \/ round.deals < MaxDeals
    \/ Len(tasks) < maxTasks /\ \E k \in DOMAIN tasks : tasks[k].kind = "deal"

\* the page's steps: clicks on the chips in `chips` while fewer than maxTasks continuations
\* are pending, and the continuations, the deck answering with cards of `ranks` and with
\* a success flag of `outcomes`
NextPage(chips, ranks, outcomes, maxTasks) ==
    \/ \E amt \in chips : BetsOpen(maxTasks) /\ PlaceBet(amt)
    \/ BetsOpen(maxTasks) /\ ClearBet
    \/ Len(tasks) < maxTasks /\ Deal
    \/ \E k \in DOMAIN tasks, cards \in [1..4 -> ranks], success \in outcomes :
          CanDraw(4, success) /\ DealResume(k, cards, success)
    \/ PlaceInsurance
    \/ DeclineInsurance
    \/ Len(tasks) < maxTasks /\ Hit
    \/ \E k \in DOMAIN tasks, card \in ranks, success \in outcomes :
          CanDraw(1, success) /\ HitResume(k, card, success)
    \/ \E k \in DOMAIN tasks : NextHandTimer(k)
    \/ Len(tasks) < maxTasks /\ Stand
    \/ Len(tasks) < maxTasks /\ DoubleDown
    \/ \E k \in DOMAIN tasks, card \in ranks, success \in outcomes :
          CanDraw(1, success) /\ DoubleResume(k, card, success)
    \/ Len(tasks) < maxTasks /\ Split
    \/ \E k \in DOMAIN tasks, cards \in [1..2 -> ranks], success \in outcomes :
          CanDraw(2, success) /\ SplitResume(k, cards, success)
    \/ \E k \in DOMAIN tasks : DealerPlay(k)
    \/ \E k \in DOMAIN tasks, card \in ranks, success \in outcomes :
          CanDraw(1, success) /\ DealerDraw(k, card, success)
    \/ StartNewGame

NextBlackjack == NextPage(ChipValues, DrawRanks, DrawOutcomes, MaxTasks)

\* BlackjackPage mounted for a logged-in user with one of `balances`, the deck shuffled
\* and holding shoeSize cards
InitPage(balances, shoeSize) ==
    /\ users = <<>>
    /\ session = [s \in Sessions |-> FreshSession]
    /\ req = [p \in Procs |-> Idle]
    /\ resp = NoResp
    /\ expected = <<>>
    /\ nreq = 0
    /\ loggedOut = [s \in Sessions |-> FALSE]
    /\ ui \in {MountedPage(b) : b \in balances}
    /\ heap = <<>>
    /\ tasks = <<>>
    /\ round = NoRound
    /\ shoe = shoeSize
    /\ eval = [cards |-> <<>>, value |-> NotEvaluated]

InitBlackjack == InitPage(StartBalances, MaxShoe)

SpecBlackjack == InitBlackjack /\ [][NextBlackjack]_vars

\* the page with clicks allowed while continuations are pending (a second click before
\* the card of the first arrives, a click during the delay of an automatic advance)
RaceBalances == {10}
RaceChips == {5}
RaceShoe == 6
RaceTasks == 2
SpecBlackjackRace ==
    InitPage(RaceBalances, RaceShoe)
    /\ [][NextPage(RaceChips, DrawRanks, DrawOutcomes, RaceTasks)]_vars

\* the page with a deck that may fail any draw (data.success false)
FailingBalances == {20}
FailingChips == {5}
FailingShoe == 7
SpecBlackjackFailing ==
    InitPage(FailingBalances, FailingShoe)
    /\ [][NextPage(FailingChips, DrawRanks, BOOLEAN, MaxTasks)]_vars

\* history of every session's authentication, read off the response a step sends
History ==
    loggedOut' =
        IF resp'.n = resp.n + 1 /\ resp'.route = "logout" /\ resp'.status = StatusOK
        THEN [loggedOut EXCEPT ![resp'.sess] = TRUE]
        ELSE IF /\ resp'.n = resp.n + 1 /\ resp'.route \in {"login", "register"}
                /\ resp'.status \in {StatusOK, StatusCreated}
        THEN [loggedOut EXCEPT ![resp'.sess] = FALSE]
        ELSE loggedOut

Init ==
    /\ users = <<>>
    /\ session = [s \in Sessions |-> FreshSession]
    /\ req = [p \in Procs |-> Idle]
    /\ resp = NoResp
    /\ expected = <<>>
    /\ nreq = 0
    /\ loggedOut = [s \in Sessions |-> FALSE]
    /\ PageNotMounted

\* getRandomResult in the full specification: one pocket of each kind
SpinSample == {0, 4, 17, 32}

NextAuth ==
    \/ \E p \in FreeProcs, s \in Sessions, u \in Usernames, e \in Emails, w \in Passwords :
          RegisterStart(p, s, u, e, w)
    \/ \E p \in Procs : RegisterInsert(p)
    \/ \E p \in FreeProcs, s \in Sessions, e \in Emails, w \in Passwords : Login(p, s, e, w)
    \/ \E p \in FreeProcs, s \in Sessions : Logout(p, s)
    \/ \E p \in FreeProcs, s \in Sessions, n \in Names, e \in Emails :
          UpdateProfileStart(p, s, n, e)
    \/ \E p \in Procs : UpdateProfileWrite(p)

NextWager ==
    \/ \E p \in FreeProcs, s \in Sessions, g \in Guesses, a \in AmountInputs :
          CoinFlipStart(p, s, g, a)
    \/ \E p \in Procs, o \in Outcomes : CoinFlipPersist(p, o)
    \/ \E p \in FreeProcs, s \in Sessions, b \in BetTypes, a \in NumericAmounts :
          RouletteStart(p, s, b, a)
    \/ \E p \in Procs, n \in SpinSample : RoulettePersist(p, n)
    \/ \E p \in FreeProcs, s \in Sessions, b \in BalanceInputs : SetBalance(p, s, b)
    \/ \E p \in FreeProcs, s \in Sessions, b \in BalanceInputs : UpdateBalanceRoute(p, s, b)

\* registration alone
NextRegister ==
    \/ \E p \in FreeProcs, s \in Sessions, u \in Usernames, e \in Emails, w \in Passwords :
          RegisterStart(p, s, u, e, w)
    \/ \E p \in Procs : RegisterInsert(p)

\* the account routes: profile, leaderboard, password, and the blackjack stub
NextAccount ==
    \/ \E p \in FreeProcs, s \in Sessions : Profile(p, s)
    \/ \E p \in FreeProcs, s \in Sessions : PlayBlackjack(p, s)
    \/ \E p \in FreeProcs, s \in Sessions : GetLeaderboard(p, s)
    \/ \E p \in FreeProcs, s \in Sessions, c \in Passwords, w \in NewPasswords :
          UpdatePasswordStart(p, s, c, w)
    \/ \E p \in Procs : UpdatePasswordWrite(p)

Next == (NextAuth \/ NextWager \/ NextAccount) /\ History /\ UNCHANGED clientVars

Spec == Init /\ [][Next]_vars

\* the credential service alone: register, login, logout, profile
SpecAuth == Init /\ [][NextAuth /\ History /\ UNCHANGED clientVars]_vars

\* the session-authenticated pipeline without the settlements
SpecAccount == Init /\ [][(NextAuth \/ NextAccount) /\ History /\ UNCHANGED clientVars]_vars

\* the life of a session: the store drops it, or its cookie's expiry passes
NextSession ==
    \/ \E s \in Sessions : SessionDestroy(s)
    \/ \E s \in Sessions : CookieLapses(s)

\* the protected routes over sessions that are destroyed and expire
NextProtected ==
    \/ \E p \in FreeProcs, s \in Sessions, e \in Emails, w \in Passwords : Login(p, s, e, w)
    \/ \E p \in FreeProcs, s \in Sessions : Logout(p, s)
    \/ \E p \in FreeProcs, s \in Sessions : Profile(p, s)
    \/ \E p \in FreeProcs, s \in Sessions : PlayBlackjack(p, s)
    \/ \E p \in FreeProcs, s \in Sessions, g \in Guesses, a \in AmountInputs :
          CoinFlipStart(p, s, g, a)
    \/ \E p \in Procs, o \in Outcomes : CoinFlipPersist(p, o)
    \/ \E p \in FreeProcs, s \in Sessions, b \in BetTypes, a \in NumericAmounts :
          RouletteStart(p, s, b, a)
    \/ \E p \in Procs, n \in SpinSample : RoulettePersist(p, n)
    \/ \E p \in FreeProcs, s \in Sessions, b \in BalanceInputs : SetBalance(p, s, b)
    \/ \E p \in FreeProcs, s \in Sessions, n \in Names, e \in Emails :
          UpdateProfileStart(p, s, n, e)
    \/ \E p \in Procs : UpdateProfileWrite(p)
    \/ \E p \in FreeProcs, s \in Sessions, c \in Passwords, w \in NewPasswords :
          UpdatePasswordStart(p, s, c, w)
    \/ \E p \in Procs : UpdatePasswordWrite(p)

\* one user has registered from session s1
InitSession ==
    /\ users = <<[username |-> "ann", email |-> "a@x", password |-> "pw1",
                  balance |-> DefaultBalance]>>
    /\ session = [s \in Sessions |-> [FreshSession EXCEPT !.user = IF s = "s1" THEN 1 ELSE NoUser]]
    /\ req = [p \in Procs |-> Idle]
    /\ resp = [n |-> 1, route |-> "register", sess |-> "s1", status |-> StatusCreated,
               message |-> "Registered",
               payload |-> [id |-> 1, username |-> "ann", email |-> "a@x",
                            balance |-> DefaultBalance],
               cookies |-> <<SessionCookie("s1")>>,
               in |-> [email |-> "a@x", password |-> "pw1"]]
    /\ expected = <<DefaultBalance>>
    /\ nreq = 1
    /\ loggedOut = [s \in Sessions |-> FALSE]
    /\ PageNotMounted

\* AuthService.updatePassword as a unit: called for known and unknown user ids
UserIdInputs == 1..(MaxUsers + 1)

NextPassword ==
    \/ \E p \in FreeProcs, s \in Sessions, u \in UserIdInputs, c \in Passwords,
          w \in NewPasswords : UpdatePasswordCall(p, s, u, c, w)
    \/ \E p \in Procs : UpdatePasswordWrite(p)

SpecPassword == Init /\ [][(NextRegister \/ NextPassword) /\ History /\ UNCHANGED clientVars]_vars

SpecSession == InitSession /\ [][(NextProtected \/ NextSession) /\ History /\ UNCHANGED clientVars]_vars

\* the wager engine over registered users
SpecWager == Init /\ [][(NextRegister \/ NextWager) /\ History /\ UNCHANGED clientVars]_vars

\* register and coin flips alone: the settlements whose deltas are payout - amount
NextCoinFlip ==
    \/ \E p \in FreeProcs, s \in Sessions, g \in Guesses, a \in AmountInputs :
          CoinFlipStart(p, s, g, a)
    \/ \E p \in Procs, o \in Outcomes : CoinFlipPersist(p, o)

SpecCoinFlip == Init /\ [][(NextRegister \/ NextCoinFlip) /\ History /\ UNCHANGED clientVars]_vars

\* Controller.getGames (GET /games)
GetGames(p, s) ==
    /\ Dispatch(p)
    /\ Send("games", s, StatusOK, "Available games",
            [games |-> <<"roulette", "blackjack", "coinflip">>], <<>>, [uid |-> SessionUserId(s)])
    /\ UNCHANGED <<users, session, req, expected>>

\* every route with its database calls rejecting
NextSqlFails ==
    \/ \E p \in FreeProcs, s \in Sessions, u \in Usernames, e \in Emails, w \in Passwords :
          RegisterSqlFails(p, s, u, e, w)
    \/ \E p \in FreeProcs, s \in Sessions, e \in Emails, w \in Passwords :
          LoginSqlFails(p, s, e, w)
    \/ \E p \in FreeProcs, s \in Sessions : RouletteSqlFails(p, s)
    \/ \E p \in FreeProcs, s \in Sessions, g \in Guesses, a \in AmountInputs :
          CoinFlipSqlFails(p, s, g, a)
    \/ \E p \in Procs : PersistSqlFails(p)
    \/ \E p \in FreeProcs, s \in Sessions : ProfileSqlFails(p, s)
    \/ \E p \in FreeProcs, s \in Sessions, b \in BalanceInputs : SetBalanceSqlFails(p, s, b)
    \/ \E p \in FreeProcs, s \in Sessions, b \in BalanceInputs :
          UpdateBalanceRouteSqlFails(p, s, b)
    \/ \E p \in FreeProcs, s \in Sessions : GetLeaderboardSqlFails(p, s)
    \/ \E p \in FreeProcs, s \in Sessions, e \in Emails : UpdateProfileSqlFails(p, s, e)
    \/ \E p \in FreeProcs, s \in Sessions : UpdatePasswordSqlFails(p, s)

\* every registered route, over a database whose calls may reject and sessions that are
\* destroyed and expire
NextRoutes ==
    \/ NextAuth \/ NextWager \/ NextAccount
    \/ \E p \in FreeProcs, s \in Sessions : GetGames(p, s)
    \/ NextSqlFails
    \/ NextSession

SpecRoutes == InitSession /\ [][NextRoutes /\ History /\ UNCHANGED clientVars]_vars

\* the bet selectors of the roulette page, and strings that are none of them
Selectors ==
    {NumberToString(n) : n \in SpinResults}
        \cup {"red", "black", "green", "even", "odd", "1-12", "13-24", "25-36"}
        \cup {"purple", "00", "017", ""}

\* A registered user's spin is suspended between getById and the draw, for every
\* selector and every amount the balance covers; the wheel then lands on any pocket.
InitRoulette ==
    /\ users = <<[username |-> "ann", email |-> "a@x", password |-> "pw1",
                  balance |-> DefaultBalance]>>
    /\ session = [s \in Sessions |-> [FreshSession EXCEPT !.user = IF s = "s1" THEN 1 ELSE NoUser]]
    /\ \E b \in Selectors, a \in NumericAmounts :
          /\ ~InsufficientFunds(a.v, DefaultBalance)
          /\ req = [p \in Procs |->
                      IF p = 1 THEN [pc |-> "spinUpdate", sess |-> "s1", uid |-> 1,
                                     betType |-> b, amount |-> a, balance |-> DefaultBalance]
                      ELSE Idle]
    /\ resp = [n |-> 1, route |-> "register", sess |-> "s1", status |-> StatusCreated,
               message |-> "Registered",
               payload |-> [id |-> 1, username |-> "ann", email |-> "a@x",
                            balance |-> DefaultBalance],
               cookies |-> <<SessionCookie("s1")>>,
               in |-> [email |-> "a@x", password |-> "pw1"]]
    /\ expected = <<DefaultBalance>>
    /\ nreq = 2
    /\ loggedOut = [s \in Sessions |-> FALSE]
    /\ PageNotMounted

NextRoulette == \E p \in Procs, n \in SpinResults : RoulettePersist(p, n)

SpecRoulette == InitRoulette /\ [][NextRoulette /\ History /\ UNCHANGED clientVars]_vars

\* ================================================================ claims
Settled(route) == resp.route = route /\ resp.status = StatusOK
AllIdle == \A p \in Procs : req[p].pc = "idle"

\* C1: every successful coin-flip or roulette settlement returns and persists
\* newBalance = (balance read before the bet) - amount + payout (stated here for the
\* bets with a positive amount, which are settlements on any reading).
C1_SettlementIdentity ==
    ((Settled("coinflip") \/ Settled("roulette")) /\ resp.in.amount.v > 0) =>
        resp.payload.newBalance = resp.in.read - resp.in.amount.v + resp.payload.payout

\* C2: with the loads and persists of concurrent settlements for one user interleaved,
\* no settlement is lost: once every settlement has committed, the persisted balance is
\* the initial balance plus the sum of (payout - amount) over the committed settlements.
C2_NoLostSettlement ==
    AllIdle => \A u \in UserIds : users[u].balance = expected[u]

\* C3: after any sequence of committed balance writes, with any request inputs,
\* every user's persisted balance is >= 0.
C3_BalanceNonNegative == \A u \in UserIds : users[u].balance >= 0

\* C4: a coin-flip or roulette bet whose amount exceeds the balance read for it is
\* answered 400 with no payload and leaves the users table as it was; the error is
\* "Insufficient funds" for every bet that passed the input validation before it.
OverBalanceBetAnswered ==
    /\ resp'.n = resp.n + 1
    /\ resp'.route \in {"coinflip", "roulette"}
    /\ resp'.status # StatusUnauthorized
    /\ resp'.in.amount.num
    /\ resp'.in.amount.v > resp'.in.read
PassedInputValidation(r) ==
    r.route = "coinflip" => (r.in.guess \notin {"", NoValue} /\ r.in.amount.v > 0)
NonPositive(amount) == ~amount.num \/ amount.v <= 0
C5_NonPositiveBetRejected ==
    /\ \A p \in Procs : req[p].pc \in {"flipUpdate", "spinUpdate"} => ~NonPositive(req[p].amount)
    /\ (resp.route \in {"coinflip", "roulette"} /\ resp.status # StatusUnauthorized
            /\ NonPositive(resp.in.amount))
          => (resp.status = StatusBadRequest /\ resp.payload = NoPayload)

Numerals == <<"0", "1", "2", "3", "4", "5", "6", "7", "8", "9", "10", "11", "12", "13",
              "14", "15", "16", "17", "18", "19", "20", "21", "22", "23", "24", "25",
              "26", "27", "28", "29", "30", "31", "32", "33", "34", "35", "36">>
RedPockets == {1, 3, 5, 7, 9, 12, 14, 16, 18, 19, 21, 23, 25, 27, 30, 32, 34, 36}
PocketColor(n) == IF n = 0 THEN "green" ELSE IF n \in RedPockets THEN "red" ELSE "black"
TableMultiplier(sel, n) ==
    CASE sel = Numerals[n + 1] -> 35
      [] sel = PocketColor(n) -> 1
      [] sel = "even" /\ n \in {2 * k : k \in 1..18} -> 1
      [] sel = "odd" /\ n \in {2 * k - 1 : k \in 1..18} -> 1
      [] sel = "1-12" /\ n \in 1..12 -> 2
      [] sel = "13-24" /\ n \in 13..24 -> 2
      [] sel = "25-36" /\ n \in 25..36 -> 2
      [] OTHER -> 0
C7_RouletteTable ==
    (resp.route = "roulette" /\ resp.status # StatusUnauthorized) =>
        /\ resp.status = StatusOK
        /\ resp.payload.result \in SpinResults
        /\ resp.payload.color = PocketColor(resp.payload.result)
        /\ LET m == TableMultiplier(resp.in.betType, resp.payload.result) IN
              /\ resp.payload.win = (m > 0)
              /\ resp.payload.payout = resp.in.amount.v * m

\* C7 witness: "17" on pocket 17 paid 35 x the stake.
C7_Witness ==
    /\ Settled("roulette") /\ resp.in.betType = "17" /\ resp.payload.result = 17
    /\ resp.in.amount.v = CentsPerCoin /\ resp.payload.payout = 35 * CentsPerCoin

\* C8: at most one user exists per exact email after any interleaving of register
\* calls and profile email updates, and a registration whose email is already
\* registered when it is decided is answered 400 and creates no user.
EmailsUnique ==
    \A i \in UserIds, j \in UserIds : users[i].email = users[j].email => i = j
RegisterAnswered == resp'.n = resp.n + 1 /\ resp'.route = "register"
C8_UniqueEmail ==
    /\ []EmailsUnique
    /\ [][(RegisterAnswered /\ \E i \in UserIds : users[i].email = resp'.in.email)
            => (resp'.status = StatusBadRequest /\ users' = users)]_vars

\* C8 witness: two registrations of one email both passed findByEmail, and the one
\* that inserted second was refused by the table and answered 400.
C8_Witness ==
    /\ resp.route = "register" /\ resp.status = StatusBadRequest
    /\ resp.message = "duplicate key value violates unique constraint"
    /\ \E i \in UserIds : users[i].email = resp.in.email
    /\ EmailsUnique

\* C9: a login with both fields supplied, whose email is unknown or whose password is
\* not the stored one, is answered 401 "Invalid credentials"; no login that is not
\* answered 200 changes any session's data or attaches a cookie.
LoginAnswered == resp'.n = resp.n + 1 /\ resp'.route = "login"
CredentialsMatch(email, password) ==
    \E i \in UserIds : users[i].email = email /\ users[i].password = password
C9_FailedLogin ==
    [][/\ (LoginAnswered /\ resp'.in.email # "" /\ resp'.in.password # ""
              /\ ~CredentialsMatch(resp'.in.email, resp'.in.password))
          => (resp'.status = StatusUnauthorized /\ resp'.message = "Invalid credentials")
       /\ (LoginAnswered /\ resp'.status # StatusOK)
          => (session' = session /\ resp'.cookies = <<>> /\ resp'.payload = NoPayload)]_vars

\* C9 witness: a session authenticated as a user sent the wrong password for an
\* existing email, got 401, and is still authenticated as before.
C9_Witness ==
    /\ resp.route = "login" /\ resp.status = StatusUnauthorized
    /\ \E i \in UserIds : users[i].email = resp.in.email /\ users[i].password # resp.in.password
    /\ session[resp.sess].user # NoUser

\* C10: a successful login or register sets the session's user to exactly the user
\* whose email and password were supplied (just created, for register), attaches the
\* session's cookie, and returns that user's id, username, email and persisted balance.
AuthAnswered ==
    /\ resp'.n = resp.n + 1
    /\ resp'.route \in {"login", "register"}
    /\ resp'.status \in {StatusOK, StatusCreated}
AuthRequiredRoutes ==
    {"logout", "profile", "coinflip", "roulette", "blackjack", "setBalance",
     "updateProfile", "updatePassword"}
UnauthenticatedAnswered ==
    /\ resp'.n = resp.n + 1
    /\ resp'.route \in AuthRequiredRoutes
    /\ resp'.in.uid = NoUser
\* C11: every auth-required route (logout, profile, coin flip, roulette, blackjack,
\* POST /user/balance, PUT /user/profile, PUT /user/password) answers 401 and changes
\* neither the users table nor any session when the request's session holds no user.
C11_Unauthenticated401 ==
    [][UnauthenticatedAnswered =>
          /\ resp'.status = StatusUnauthorized
          /\ users' = users
          /\ session' = session]_vars

RoutesClosedByLogout ==
    {"profile", "coinflip", "roulette", "setBalance", "updateBalance", "updateProfile",
     "updatePassword"}
\* C12: after a successful logout on a session, every later request on that session
\* to profile, coin flip, roulette, POST /user/balance, POST /api/users/updateBalance,
\* PUT /user/profile or PUT /user/password is answered 401 at once, until a later
\* successful login or register on that session.
C12_LoggedOutStays401 ==
    [][\A s \in Sessions :
          (loggedOut[s] /\ nreq' = nreq + 1) =>
             /\ (resp'.n = resp.n + 1 /\ resp'.sess = s /\ resp'.route \in RoutesClosedByLogout)
                   => resp'.status = StatusUnauthorized
             /\ \A p \in Procs :
                   (req'[p] # req[p] /\ req'[p].sess = s) => req'[p].pc = "createUser"]_vars

\* C12 witness: a user exists, the session was logged out, and its request for the
\* profile was answered 401.
C12_Witness ==
    /\ users # <<>>
    /\ resp.route = "profile" /\ resp.status = StatusUnauthorized
    /\ loggedOut[resp.sess]

\* C13: after POST /auth/logout the session's cookie has an expiry in the past
\* (isExpired() is true) and that cookie is attached to the logout response.
C13_LogoutExpiresCookie ==
    [][(resp'.n = resp.n + 1 /\ resp'.route = "logout" /\ resp'.status = StatusOK) =>
          /\ session'[resp'.sess].expires = "past"
          /\ resp'.cookies = <<SessionCookie(resp'.sess)>>]_vars

\* C14: a destroyed session holds no data and is expired, and a request that resolves
\* to a destroyed or expired session is handled like a request with no cookie: every
\* protected route answers it 401 at once.
C14_ExpiredSessionUnauthenticated ==
    /\ [](\A s \in Sessions : session[s] = DestroyedSession =>
                (IsExpired(s) /\ session[s].user = NoUser /\ session[s].userEmail = NoValue))
    /\ [][\A s \in Sessions :
            (IsExpired(s) /\ nreq' = nreq + 1) =>
               /\ (resp'.n = resp.n + 1 /\ resp'.sess = s /\ resp'.route \in AuthRequiredRoutes)
                     => resp'.status = StatusUnauthorized
               /\ \A p \in Procs :
                     (req'[p] # req[p] /\ req'[p].sess = s) => req'[p].pc = "createUser"]_vars

CarriesPassword(payload) == "password" \in DOMAIN payload
\* C15: no response payload or message sent by any handler contains a user's stored
\* password.
C15_NoPasswordInResponse ==
    /\ IF resp.route = "leaderboard"
       THEN \A k \in DOMAIN resp.payload : ~CarriesPassword(resp.payload[k])
       ELSE ~CarriesPassword(resp.payload)
    /\ \A u \in UserIds : resp.message # users[u].password

PasswordAnswered == resp'.n = resp.n + 1 /\ resp'.route = "updatePassword"
                       /\ resp'.status # StatusUnauthorized
\* C16: updatePassword fails with "User not found" for an unknown id, with the
\* incorrect-password error when currentPassword is not the stored password (as the
\* call's getById read it), and with the too-short error when newPassword has fewer than 6 characters; every failure
\* leaves the users table as it was, a call fails only for one of these reasons (or
\* for a newPassword that is no string), and every call that does not fail stores
\* newPassword as the password of that user and changes nothing else.
C16_UpdatePassword ==
    [][PasswordAnswered =>
          LET a == resp'.in
              known == a.uid \in UserIds
              matches == known /\ a.read = a.currentPassword
              short == a.newPassword # NoValue /\ Len(a.newPassword) < 6
          IN
          /\ resp'.status \in {StatusOK, StatusBadRequest}
          /\ ~known => (resp'.status = StatusBadRequest /\ resp'.message = "User not found")
          /\ (known /\ ~matches) =>
                (resp'.status = StatusBadRequest
                    /\ resp'.message = "Current password is incorrect")
          /\ (matches /\ short) =>
                (resp'.status = StatusBadRequest
                    /\ resp'.message = "New password must be at least 6 characters")
          /\ resp'.status = StatusBadRequest =>
                (users' = users /\ (~known \/ ~matches \/ short \/ a.newPassword = NoValue))
          /\ resp'.status = StatusOK =>
                /\ matches /\ ~short
                /\ users'[a.uid].password = a.newPassword
                /\ users' = [users EXCEPT ![a.uid].password = a.newPassword]]_vars

\* C16 witness: a user whose stored password was "pw1" changed it to "secret".
C16_Witness ==
    /\ resp.route = "updatePassword" /\ resp.status = StatusOK
    /\ resp.in.read = "pw1" /\ resp.in.newPassword = "secret"
    /\ users[resp.in.uid].password = "secret"

CardPoints(v) ==
    CASE v = "ACE" -> 1
      [] v \in {"JACK", "QUEEN", "KING", "10"} -> 10
      [] v = "2" -> 2 [] v = "3" -> 3 [] v = "4" -> 4 [] v = "5" -> 5
      [] v = "6" -> 6 [] v = "7" -> 7 [] v = "8" -> 8 [] v = "9" -> 9
HardTotal(cards) ==
    LET RECURSIVE Upto(_)
        Upto(n) == IF n = 0 THEN 0 ELSE CardPoints(cards[n]) + Upto(n - 1)
    IN Upto(Len(cards))
BestTotal(cards) ==
    LET hard == HardTotal(cards)
        options == {hard + 10 * k : k \in 0..Cardinality({i \in DOMAIN cards : cards[i] = "ACE"})}
        fitting == {t \in options : t <= 21}
    IN IF fitting = {} THEN hard ELSE CHOOSE t \in fitting : \A u \in fitting : u <= t
\* C17: getHandValue counts JACK / QUEEN / KING as 10, numerals at face value and each
\* ACE as 11 or 1: the result is the largest total <= 21 obtainable by counting each
\* ace as 1 or 11, or the total with every ace as 1 when no choice is <= 21.
C17_HandValue ==
    eval.value # NotEvaluated => eval.value = BestTotal(eval.cards)

\* C17 witness: [ACE, ACE, 9] was evaluated to 21 (one ace demoted).
C17_Witness ==
    eval.cards = <<"ACE", "ACE", "9">> /\ eval.value = 21

\* ---- the card game's payouts

\* the player's only hand is the two cards of the deal and totals 21
PlayerNatural ==
    /\ ui.mounted /\ ~round.split /\ Len(ui.playerHands) = 1
    /\ Len(CardsOf(ui, heap, 0)) = 2
    /\ GetHandValue(CardsOf(ui, heap, 0)) = BLACKJACK
\* the dealer's two cards total 21
DealerNatural == Len(ui.dealerHand) = 2 /\ GetHandValue(ui.dealerHand) = BLACKJACK
\* twice what the round's insurance has added to the balance by the rules of the side bet
TwiceInsuranceNet ==
    IF round.insurance # "bought" THEN 0
    ELSE IF DealerNatural THEN 4 * (round.bet \div 2) ELSE 0 - 2 * (round.bet \div 2)
\* C18: once a natural is dealt and the insurance decision, if one was offered, is made,
\* the round is over and the balance is the balance at the deal plus 2.5 x the bet, or
\* plus the bet alone when the dealer's two cards total 21 too (plus what the insurance
\* side bet won or cost), for every bet and every insurance decision.
C18_NaturalPays ==
    (PlayerNatural /\ ~ui.showInsurance /\ tasks = <<>>) =>
        /\ ui.gameOver
        /\ 2 * (ui.balance - round.balanceAtDeal) =
              (IF DealerNatural THEN 2 * round.bet ELSE 5 * round.bet) + TwiceInsuranceNet

\* what a hand of a split round returns by the rules: nothing when bust, twice the bet
\* for a two-card 21, for a bust dealer and for a higher total, the bet on a tie
SplitHandReturn(cards, b, dv) ==
    LET pv == GetHandValue(cards) IN
    IF pv > BLACKJACK THEN 0
    ELSE IF pv = BLACKJACK /\ Len(cards) = 2 THEN 2 * b
    ELSE IF dv > BLACKJACK \/ pv > dv THEN 2 * b
    ELSE IF pv = dv THEN b
    ELSE 0
RECURSIVE SplitRoundReturn(_, _, _, _)
SplitRoundReturn(c, h, dv, n) ==
    IF n = 0 THEN 0
    ELSE SplitRoundReturn(c, h, dv, n - 1) + SplitHandReturn(CardsOf(c, h, n - 1), c.bets[n], dv)
\* the step is settle() run by the pending dealerPlay k
SettleStep(k) ==
    /\ tasks[k].kind \in {"dealerPlay", "dealerDraw"}
    /\ tasks' = Without(tasks, k)
    /\ ~ui.gameOver /\ ui'.gameOver
\* C19: when a round with split hands is settled, every two-card 21 among them is paid
\* bet x 2 and never bet x 2.5: the balance becomes the balance of the settling closure
\* plus the returns of the hands, a two-card 21 counted at twice its bet.
C19_SplitTwentyOneEvenMoney ==
    [][\A k \in DOMAIN tasks :
          (SettleStep(k) /\ Len(tasks[k].snap.playerHands) > 1) =>
              ui'.balance = tasks[k].snap.balance
                            + SplitRoundReturn(tasks[k].snap, heap', GetHandValue(ui'.dealerHand),
                                               Len(tasks[k].snap.playerHands))]_vars
\* a settled round in which a hand made by a split holds a two-card 21
C19_Witness ==
    /\ ui.mounted /\ round.split /\ ui.gameOver /\ Len(ui.playerHands) > 1
    /\ ui.message \in {"returned", "You lose"}
    /\ \E i \in 0..(Len(ui.playerHands) - 1) :
          Len(CardsOf(ui, heap, i)) = 2 /\ GetHandValue(CardsOf(ui, heap, i)) = BLACKJACK

\* C20: insurance is offered only on a dealer ace; buying it takes floor(bet / 2) at
\* once; with a dealer 21 the balance after the purchase is resolved is the balance
\* before it - cost + 3 x cost and the round is over; otherwise the cost stays taken
\* and the player's turn begins.
C20_Insurance ==
    /\ [](ui.mounted /\ ui.showInsurance => ui.dealerHand[1] = "ACE")
    /\ [][(ui.mounted /\ ui.showInsurance /\ round'.insurance = "bought"
             /\ round.insurance # "bought") =>
             LET cost == ui.bets[1] \div 2 IN
             IF GetHandValue(ui.dealerHand) = BLACKJACK
             THEN ui'.balance = ui.balance - cost + 3 * cost /\ ui'.gameOver
             ELSE PlayerNatural \/ (ui'.balance = ui.balance - cost /\ ui'.inGame
                                    /\ ~ui'.gameOver /\ ~ui'.showInsurance)]_vars

\* ---- the card game's turn structure

\* the number of pending continuations of the given kinds
CountKind(seq, kinds) == Cardinality({k \in DOMAIN seq : seq[k].kind \in kinds})
\* the steps play has advanced in this step: hands passed, dealer turns and delayed
\* advances scheduled
Advances ==
    (ui'.currentHand - ui.currentHand)
    + CountKind(tasks', {"dealerPlay", "nextHand"}) - CountKind(tasks, {"dealerPlay", "nextHand"})
\* the step draws exactly one card into hand id and touches no other hand
OneCardInto(id) ==
    /\ Len(heap') = Len(heap)
    /\ Len(heap'[id]) = Len(heap[id]) + 1
    /\ \A j \in DOMAIN heap : j # id => heap'[j] = heap[j]
\* the step is the click on Double that takes effect
DoubleClick == CountKind(tasks', {"doubleHit"}) > CountKind(tasks, {"doubleHit"})
\* the step is the arrival of the card of the double down k
DoubleArrives(k) ==
    /\ tasks[k].kind = "doubleHit"
    /\ CountKind(tasks', {"doubleHit"}) < CountKind(tasks, {"doubleHit"})
\* C21: a double down takes effect only on a current hand of two cards with the balance
\* at least its bet; it takes the bet from the balance and doubles the hand's bet; its
\* card is exactly one card into that hand, and play then advances exactly one step,
\* whatever the card makes the hand's value.
C21_DoubleDown ==
    [][/\ DoubleClick =>
             LET b == ui.bets[ui.currentHand + 1] IN
             /\ Len(CardsOf(ui, heap, ui.currentHand)) = 2
             /\ ui.balance >= b
             /\ ui'.balance = ui.balance - b
             /\ ui'.bets = [ui.bets EXCEPT ![ui.currentHand + 1] = 2 * b]
       /\ \A k \in DOMAIN tasks :
             DoubleArrives(k) =>
                /\ OneCardInto(tasks[k].snap.playerHands[tasks[k].snap.currentHand + 1])
                /\ Advances = 1]_vars

\* the step is the click on Split that takes effect
SplitClick == CountKind(tasks', {"split"}) > CountKind(tasks, {"split"})
\* the step is the arrival of the two cards of the split k
SplitArrives(k) ==
    /\ tasks[k].kind = "split"
    /\ CountKind(tasks', {"split"}) < CountKind(tasks, {"split"})
    /\ tasks' = Without(tasks, k)
\* C22: a split takes effect only on a current hand of two cards of equal rank with the
\* balance at least its bet; it takes the bet from the balance and gives both places
\* the original bet; when its cards arrive the hand is replaced by two hands, each one
\* of the original cards plus one new card, with bets and balance as the click left them.
C22_Split ==
    [][/\ SplitClick =>
             LET b == ui.bets[ui.currentHand + 1]
                 h == CardsOf(ui, heap, ui.currentHand)
             IN
             /\ Len(h) = 2 /\ h[1] = h[2]
             /\ ui.balance >= b
             /\ ui'.balance = ui.balance - b
             /\ ui'.bets = Splice(ui.bets, ui.currentHand, b, b)
             /\ ui'.playerHands = ui.playerHands
       /\ \A k \in DOMAIN tasks :
             SplitArrives(k) =>
                LET c == tasks[k].snap
                    i == c.currentHand
                    h == CardsOf(c, heap, i)
                    first == heap'[ui'.playerHands[i + 1]]
                    second == heap'[ui'.playerHands[i + 2]]
                IN
                /\ Len(ui'.playerHands) = Len(c.playerHands) + 1
                /\ \A j \in 1..i : ui'.playerHands[j] = c.playerHands[j]
                /\ \A j \in (i + 2)..Len(c.playerHands) : ui'.playerHands[j + 1] = c.playerHands[j]
                /\ Len(first) = 2 /\ first[1] = h[1]
                /\ Len(second) = 2 /\ second[1] = h[2]
                /\ shoe' = shoe - 2
                /\ ui'.bets = ui.bets
                /\ ui'.balance = ui.balance]_vars
\* a pair was split with the balance at the deal equal to the bet, and both hands got
\* their second card
C22_Witness ==
    /\ ui.mounted /\ round.split /\ round.balanceAtDeal = round.bet
    /\ Len(ui.playerHands) = 2 /\ ui.bets = <<round.bet, round.bet>>
    /\ Len(CardsOf(ui, heap, 0)) = 2 /\ Len(CardsOf(ui, heap, 1)) = 2
    /\ ui.balance = 0

\* every hand of the closure is bust
AllBusted(c, h) ==
    \A i \in 0..(Len(c.playerHands) - 1) : GetHandValue(CardsOf(c, h, i)) > BLACKJACK
\* the step is a card drawn by the dealer's turn k
DealerDrawStep(k) ==
    /\ tasks[k].kind = "dealerDraw"
    /\ shoe' = shoe - 1
    /\ heap' = heap
    /\ Len(ui'.dealerHand) = Len(tasks[k].dh) + 1
\* the step runs settle()
SettleRuns == round'.settles = round.settles + 1
\* C23: the dealer draws only when the player's turn is over, the round is not settled,
\* some player hand is not bust and the dealer's value is below 17; at settlement the
\* dealer's value is at least 17 when some player hand is not bust, and the dealer's
\* hand is the two cards of the deal when every player hand is bust.
C23_DealerTurn ==
    [][/\ \A k \in DOMAIN tasks :
             DealerDrawStep(k) =>
                /\ ~ui.inGame /\ ~ui.gameOver
                /\ GetHandValue(ui.dealerHand) < DEALER_STAND
                /\ ~AllBusted(ui, heap)
       /\ SettleRuns =>
             IF AllBusted(ui, heap)
             THEN Len(ui'.dealerHand) = 2
             ELSE GetHandValue(ui'.dealerHand) >= DEALER_STAND]_vars

\* what the hands on the table return by the rules at their current stakes
RECURSIVE TableReturn(_, _, _, _)
TableReturn(u, h, dv, n) ==
    IF n = 0 THEN 0
    ELSE TableReturn(u, h, dv, n - 1) + SplitHandReturn(CardsOf(u, h, n - 1), u.bets[n], dv)
\* C24: settlement credits, for each hand, nothing when it is bust, twice its current
\* (possibly doubled) stake when the dealer is bust or the hand is higher, its stake on
\* a tie and nothing otherwise (a two-card 21 of a split hand at twice its stake).
C24_SettlementReturns ==
    [][SettleRuns =>
          round'.returns - round.returns =
             TableReturn(ui, heap, GetHandValue(ui'.dealerHand), Len(ui.playerHands))]_vars

\* C25: settle runs at most once in a round.
C25_SettledOnce == round.settles <= 1

\* C26: when a round is over and nothing is pending, the balance is the balance before
\* the first chip minus every stake taken (bet, double down, split, insurance) plus
\* every return credited (natural, insurance, settlement).
C26_CurrencyConserved ==
    (ui.mounted /\ round.deals > 0 /\ ui.gameOver /\ tasks = <<>>) =>
        ui.balance = round.balanceAtDeal + round.bet - round.stakes + round.returns

\* the sum of the stakes on the table
RECURSIVE SumBets(_)
SumBets(b) == IF b = <<>> THEN 0 ELSE b[1] + SumBets(Tail(b))
\* the messages of a failed draw of a hit or a split
CardSourceErrors ==
    {"Error drawing card. Please start a new game.",
     "Error drawing cards. Please start a new game."}
\* C27: when a failed draw of a hit or a split is reported, the round is marked over,
\* there is one bet per hand, and what is missing from the balance is exactly the
\* stakes of the hands on the table (and the insurance bought), a doubled stake only on
\* a hand that got the card of its double down: no stake is taken for an action that
\* did not take effect.
C27_CardSourceFailure ==
    (ui.mounted /\ ui.message \in CardSourceErrors) =>
        /\ ui.gameOver
        /\ Len(ui.bets) = Len(ui.playerHands)
        /\ \A i \in DOMAIN ui.bets :
              \/ ui.bets[i] = round.bet
              \/ ui.bets[i] = 2 * round.bet /\ Len(heap[ui.playerHands[i]]) = 3
        /\ ui.balance = round.balanceAtDeal + round.bet - SumBets(ui.bets)
                        - (IF round.insurance = "bought" THEN round.bet \div 2 ELSE 0)

\* the step is the click on Hit that takes effect
HitClick == CountKind(tasks', {"hit"}) > CountKind(tasks, {"hit"})
\* the step is the arrival of the card of the hit k
HitArrives(k) ==
    /\ tasks[k].kind = "hit"
    /\ CountKind(tasks', {"hit"}) < CountKind(tasks, {"hit"})
    /\ SubSeq(tasks', 1, Len(tasks) - 1) = Without(tasks, k)
\* the step is the end of the delay of an automatic advance
DelayEnds == CountKind(tasks', {"nextHand"}) < CountKind(tasks, {"nextHand"})
\* the hands passed in this step: the current hand moved on, or a dealer turn scheduled
HandsPassed ==
    (ui'.currentHand - ui.currentHand)
    + CountKind(tasks', {"dealerPlay"}) - CountKind(tasks, {"dealerPlay"})
BetWriteApplied(p) ==
    /\ req[p].pc \in {"flipUpdate", "spinUpdate"}
    /\ req'[p].pc = "idle"
    /\ resp'.n = resp.n + 1 /\ resp'.status = StatusOK
\* C29: when the balance write of a bet is applied, the bet's amount does not exceed the
\* balance the user has persisted at that moment.
C29_NoOverdraw ==
    [][\A p \in Procs :
          BetWriteApplied(p) => req[p].amount.v <= users[req[p].uid].balance]_vars

\* ---- the phases of a round

\* the phase the page is in
Phase ==
    IF ui.gameOver THEN "Settled"
    ELSE IF ui.showInsurance THEN "InsuranceDecision"
    ELSE IF ui.inGame THEN "PlayerTurn"
    ELSE IF CountKind(tasks, {"deal"}) > 0 THEN "Dealing"
    ELSE IF ui.playerHands # <<>> THEN "DealerTurn"
    ELSE "NoRound"
\* the place of a phase in the order of a round
PhaseRank(ph) ==
    CASE ph = "NoRound" -> 0
      [] ph = "Dealing" -> 1
      [] ph = "InsuranceDecision" -> 2
      [] ph = "PlayerTurn" -> 3
      [] ph = "DealerTurn" -> 4
      [] ph = "Settled" -> 5
\* the step ends the settled round (New Game)
RoundLeft == Phase = "Settled" /\ Phase' = "NoRound"
\* the step changes the player's hands, their cards, their bets or the current hand
HandsTouched ==
    \/ ui'.playerHands # ui.playerHands
    \/ ui'.bets # ui.bets
    \/ ui'.currentHand # ui.currentHand
    \/ \E id \in DOMAIN heap : heap'[id] # heap[id]
\* the step is a click on a chip or on Clear that takes effect
BetClick == tasks' = tasks /\ ui'.bet # ui.bet
\* the step is a click on Deal that takes effect
DealClick == CountKind(tasks', {"deal"}) > CountKind(tasks, {"deal"})
\* C31: a round goes through Dealing, InsuranceDecision, PlayerTurn, DealerTurn and
\* Settled in this order and never back; the player's hands, bets and current hand
\* are changed only by the deal's arrival and during the player's turn, and never while
\* the insurance decision is pending, in the dealer's turn or after settlement; a chip,
\* Clear and Deal take effect only while no round is in progress.
C31_PhaseOrder ==
    [][/\ (Phase' # Phase /\ ~RoundLeft) => PhaseRank(Phase') > PhaseRank(Phase)
       /\ (HandsTouched /\ ~RoundLeft) => Phase \in {"Dealing", "PlayerTurn"}
       /\ (HitClick \/ DoubleClick \/ SplitClick) => Phase = "PlayerTurn"
       /\ BetClick => Phase = "NoRound"
       /\ DealClick => Phase = "NoRound"]_vars

\* ---- one response per request

\* the step is the end of a handler's execution: of one that ran without suspending, or
\* of one that resumes from its database call
HandlerEnds ==
    \/ nreq' = nreq + 1 /\ req' = req
    \/ \E p \in Procs : req[p].pc # "idle" /\ req'[p].pc = "idle"
\* C32: a handler's execution calls Response.send exactly once: the step in which a
\* handler ends sends one response, and no other step sends any.
C32_SendOnce ==
    [][IF HandlerEnds THEN resp'.n = resp.n + 1 ELSE resp'.n = resp.n]_vars

\* ---- who a session is authenticated as

\* the step is a successful register or login on session s
Established(s) ==
    /\ resp'.n = resp.n + 1 /\ resp'.sess = s
    /\ resp'.route \in {"register", "login"}
    /\ resp'.status \in {StatusOK, StatusCreated}
\* the step is a logout on session s, or the destruction or the expiry of session s
Cleared(s) ==
    \/ resp'.n = resp.n + 1 /\ resp'.sess = s /\ resp'.route = "logout"
    \/ session'[s] = DestroyedSession /\ session[s] # DestroyedSession
    \/ IsExpired(s)' /\ ~IsExpired(s)
\* C33: the user a session is authenticated as changes only in a successful register or
\* login on that session, to the user of the response, and in a logout, a destruction
\* or the expiry of that session, to none.
C33_AuthenticationFrame ==
    [][\A s \in Sessions :
          SessionUserId(s)' # SessionUserId(s) =>
             \/ Established(s) /\ SessionUserId(s)' = resp'.payload.id
             \/ Cleared(s) /\ SessionUserId(s)' = NoUser]_vars
\* a profile was updated, a rejected login followed on the same session, and the session
\* is still authenticated as the user of the profile
C33_Witness ==
    /\ resp.route = "login" /\ resp.status = StatusUnauthorized
    /\ SessionUserId(resp.sess) # NoUser
    /\ users[SessionUserId(resp.sess)].email = "b@x"
    /\ session[resp.sess].userEmail = "b@x"

\* ---- the round can always go on

\* a round has been dealt and is not settled, and no continuation is pending
AwaitsPlayer == ui.mounted /\ ui.playerHands # <<>> /\ ~ui.gameOver /\ tasks = <<>>
\* C34: whenever a dealt round is unsettled and nothing is pending, the page offers an
\* action: the insurance decision or the action buttons of the current hand.
C34_ActionAvailable == AwaitsPlayer => (ui.showInsurance \/ ActionButtons)

\* ---- bets and hands

\* what has been taken from the balance for the hands of the round
HandStakes == round.stakes - (IF round.insurance = "bought" THEN InsuranceCost(round.bet) ELSE 0)
\* C35: in every state of a round there are as many bets as player hands, and the bets
\* are the stakes taken for the hands: they add up to what was deducted for them.
C35_BetsMatchHands ==
    (ui.mounted /\ ui.playerHands # <<>>) =>
        /\ Len(ui.bets) = Len(ui.playerHands)
        /\ SumBets(ui.bets) = HandStakes

\* ---- the current hand

\* the round is in the player's turn
PlayerTurn == ui.mounted /\ ui.playerHands # <<>> /\ ui.inGame /\ ~ui.gameOver
\* C36: in the player's turn the current hand is one of the player's hands, and the
\* current hand moves on by one hand at a time.
C36_CurrentHandExists ==
    [][/\ PlayerTurn' => ui'.currentHand < Len(ui'.playerHands)
       /\ (PlayerTurn /\ ui'.currentHand > ui.currentHand) => ui'.currentHand = ui.currentHand + 1]_vars

\* ---- the roulette table

\* the entries of the table with number n
EntriesOf(n) == {i \in DOMAIN ROULETTE_NUMBERS : ROULETTE_NUMBERS[i].number = n}
\* the entries of the table with color c
EntriesColored(c) == {i \in DOMAIN ROULETTE_NUMBERS : ROULETTE_NUMBERS[i].color = c}
\* C37: a spin never answers "Invalid spin result": the number drawn is found in the
\* table, which holds each of 0..36 exactly once, 0 green, 18 numbers red and 18 black,
\* and the answer carries the number drawn with its color of the table.
C37_TableComplete ==
    (resp.route = "roulette" /\ resp.n > 1) =>
        /\ resp.message # "Invalid spin result"
        /\ resp.status = StatusOK
        /\ resp.payload.result \in SpinResults
        /\ Cardinality(EntriesOf(resp.payload.result)) = 1
        /\ \A i \in EntriesOf(resp.payload.result) : ROULETTE_NUMBERS[i].color = resp.payload.color
        /\ Len(ROULETTE_NUMBERS) = Cardinality(SpinResults)
        /\ EntriesColored("green") = EntriesOf(0)
        /\ Cardinality(EntriesColored("red")) = 18
        /\ Cardinality(EntriesColored("black")) = 18
\* the spin drew 0, the first entry of the table, and was answered with green
C37_Witness ==
    /\ resp.route = "roulette" /\ resp.status = StatusOK
    /\ resp.payload.result = 0 /\ resp.payload.color = "green"

\* ---- the password after updatePassword

\* the step answers a login made with the email of the user of the last answer, which
\* was the answer to an updatePassword for that user
LoginAfterPasswordUpdate ==
    /\ resp.route = "updatePassword" /\ resp.in.uid \in UserIds
    /\ resp'.n = resp.n + 1 /\ resp'.route = "login"
    /\ resp'.in.email = users[resp.in.uid].email
\* C38: a login that follows a successful updatePassword succeeds with the user's email
\* and the new password and is refused with the old one when the two differ; a login
\* that follows a failed updatePassword succeeds with the password stored before it.
C38_PasswordRoundTrip ==
    [][LoginAfterPasswordUpdate =>
          IF resp.status = StatusOK
          THEN /\ resp'.in.password = resp.in.newPassword =>
                     resp'.status = StatusOK /\ resp'.payload.id = resp.in.uid
               /\ (resp'.in.password = resp.in.currentPassword
                     /\ resp.in.currentPassword # resp.in.newPassword) =>
                     resp'.status = StatusUnauthorized
          ELSE resp'.in.password = resp.in.read =>
                  resp'.status = StatusOK /\ resp'.payload.id = resp.in.uid]_vars
\* the password of a user has been changed from pw1 to secret, and a login can follow
C38_Witness ==
    /\ resp.route = "updatePassword" /\ resp.status = StatusOK
    /\ resp.in.read = "pw1" /\ resp.in.newPassword = "secret"
    /\ users[resp.in.uid].password = "secret"
    /\ nreq < MaxRequests

====
